---- MODULE Spec2Model ----
(***************************************************************************)
(* Model of the multi-tenant retrieval pipeline of the Contentstack        *)
(* semantic-search backend: the process-wide Pinecone index binding        *)
(* (VectorSearchService), the stack-key middleware, and the OAuth          *)
(* credential lifecycle (TokenRefreshService, tokenService, OAuthToken).   *)
(*                                                                         *)
(* Strings that the code transforms are sequences of one-character         *)
(* strings.  Time is counted in minutes.                                   *)
(***************************************************************************)
EXTENDS Integers, Sequences, FiniteSets, TLC

VARIABLES
    index,             \* VectorSearchService.index: name of the bound Pinecone index
    currentIndexName,  \* VectorSearchService.currentIndexName
    isInitialized,     \* VectorSearchService.isInitialized
    store,             \* Pinecone: index name -> entry id -> owner of the stored vector
    req,               \* in-flight requests that use the vector service
    now,               \* Date.now(), in minutes
    ticks,             \* how often the clock has advanced
    tokens,            \* OAuthToken collection: stackApiKey -> document
    order,             \* natural order of the OAuthToken documents (find({}))
    provider,          \* OAuth token endpoint: per stack, tokens issued and valid refresh token
    proc,              \* credential-side activities: callers 1..NumProcs and the sweep 0
    calls,             \* how many credential-side activities have been started
    naming,            \* generateIndexName: two stack keys and the names made of them
    indexes,           \* Pinecone control plane: index name -> absent, initializing or ready
    job,               \* PineconeIndexService.createStackIndex calls
    run,               \* IndexingService.indexAllEntries: the entries, the loop and its counters
    vectors,           \* the vectors of the index of the stack that is indexed
    srch,              \* a request to one of the search controllers
    hook               \* the webhook event that each request slot serves

bindVars == <<index, currentIndexName, isInitialized, store, req>>

credVars == <<now, ticks, tokens, order, provider, proc, calls>>

\* the state of the index and indexing services
indexingVars == <<run, vectors>>

extVars == <<naming, indexes, job, run, vectors, srch, hook>>

vars == <<index, currentIndexName, isInitialized, store, req,
          now, ticks, tokens, order, provider, proc, calls, naming, indexes, job,
          run, vectors, srch, hook>>

-----------------------------------------------------------------------------
(* Bounds *)

NumReqs == 2

NumProcs == 2

MaxTicks == 2

MaxIssue == 3

MaxCalls == 3

NumRequesters == 1

MaxKeyLen == 2

NumJobs == 2

MaxEntries == 3

MaxImages == 1

MaxGroups == 101

MaxStored == 3

-----------------------------------------------------------------------------
(* PineconeIndexService.generateIndexName *)

Min(a, b) == IF a < b THEN a ELSE b

AlnumChars == {"a", "b", "l", "t", "A", "B", "1", "2"}

\* String.prototype.toLowerCase on one character of the modelled alphabet
LowerChar(c) ==
    CASE c = "A" -> "a"
      [] c = "B" -> "b"
      [] OTHER -> c

toLowerCase(s) == [i \in 1..Len(s) |-> LowerChar(s[i])]

IsAlnum(c) == c \in AlnumChars

\* 'semantic-search-'
IndexPrefix ==
    <<"s","e","m","a","n","t","i","c","-","s","e","a","r","c","h","-">>

IndexNameLimit == 45

generateIndexName(stackApiKey) ==
    LET safeStackKey == SelectSeq(stackApiKey, IsAlnum)
        indexName    == IndexPrefix \o safeStackKey
        lowered      == toLowerCase(indexName)
    IN  SubSeq(lowered, 1, Min(IndexNameLimit, Len(lowered)))

\* the characters of the stack keys that are named: a lower-case letter, its
\* upper-case form, a digit and a character outside [a-zA-Z0-9]
KeyChars == {"a", "A", "1", "-"}

\* the sequences over S of length 1..n
RECURSIVE SeqsUpTo(_, _)
SeqsUpTo(S, n) ==
    IF n = 0 THEN {}
    ELSE LET shorter == SeqsUpTo(S, n - 1)
         IN {<<c>> : c \in S} \cup shorter
              \cup {Append(t, c) : t \in shorter, c \in S}

ShortKeys == SeqsUpTo(KeyChars, MaxKeyLen)

\* as many characters as the limit leaves for the key
LongStem == [i \in 1..(IndexNameLimit - Len(IndexPrefix)) |-> "b"]

\* the key corpus: short keys, and keys that outgrow the limit
NamedKeys == ShortKeys \cup {LongStem \o k : k \in ShortKeys}

\* no name made yet
NoName == <<>>

\* nothing is being named
IdleNaming ==
    [first |-> <<"a">>, second |-> <<"1">>,
     nameFirst |-> NoName, nameSecond |-> NoName]

\* generateIndexName(first) is called
NameFirst ==
    /\ naming.nameFirst = NoName
    /\ naming' = [naming EXCEPT !.nameFirst = generateIndexName(naming.first)]
    /\ UNCHANGED <<bindVars, credVars, srch, hook, indexes, job, indexingVars>>

\* generateIndexName(second) is called
NameSecond ==
    /\ naming.nameSecond = NoName
    /\ naming' = [naming EXCEPT !.nameSecond = generateIndexName(naming.second)]
    /\ UNCHANGED <<bindVars, credVars, srch, hook, indexes, job, indexingVars>>

-----------------------------------------------------------------------------
(* Tenants, indexes and documents *)

KeyA == <<"b", "l", "t", "a", "1">>
KeyB == <<"b", "l", "t", "b", "2">>

TenantKeys == {KeyA, KeyB}

\* a null / undefined / '' stackApiKey argument
NoKey == <<>>

\* this.index === null
NoIndex == <<>>

IndexNames == {generateIndexName(k) : k \in TenantKeys}

EntryIds == {"e1"}

\* value of an absent vector
Absent == <<>>

Reqs == 1..NumReqs

ReqKinds == {"indexEntry", "removeEntry", "semanticSearch"}

IdleReq ==
    [kind |-> "none", key |-> NoKey, id |-> "e1", pc |-> "idle",
     ret |-> "idle", target |-> NoIndex, results |-> {}, status |-> "none",
     \* the index an update has deleted from
     removedFrom |-> NoIndex,
     \* whether the index held the id that deleteOne was called for
     found |-> FALSE]

-----------------------------------------------------------------------------
(* VectorSearchService *)

(* A step of a request runs from one I/O await to the next: what the code  *)
(* does between two awaits that only pass through resolved promises is one *)
(* step.  `initd` is the value of this.isInitialized inside the step.      *)

\* the stackApiKey argument the caller hands to the vector operation:
\* semanticSearch calls search() without it, and so does SyncController's
\* updateEntry when it removes an entry that is gone
OpKey(r) ==
    IF req[r].kind \in {"semanticSearch", "updateEntry"} THEN NoKey ELSE req[r].key

\* vectors of an index as the query returns them
Matches(ix) == {<<i, store[ix][i]>> : i \in {j \in EntryIds : store[ix][j] # Absent}}

\* initialize: the test of its early return
AlreadyBound(stackApiKey, initd) ==
    initd /\ currentIndexName = generateIndexName(stackApiKey)

\* initialize: this.index and this.currentIndexName are assigned, then it
\* awaits describeIndexStats; `after` is where its caller goes on
Rebind(r, stackApiKey, after, initd) ==
    /\ index' = generateIndexName(stackApiKey)
    /\ currentIndexName' = generateIndexName(stackApiKey)
    /\ isInitialized' = initd
    /\ req' = [req EXCEPT ![r].pc = "describe", ![r].ret = after]
    /\ UNCHANGED store

\* a deleteOne that is refused for an id the index does not hold
DeleteOneStatusStrict(present) == IF present THEN "ok" ELSE "error500"

\* this.index.deleteOne(entryId) resolves whether or not the index holds the
\* id, and removeEntry returns true
DeleteOneStatus(present) == "ok"

\* this.index.upsert / this.index.deleteOne / this.index.query is issued
Operate(r, initd) ==
    /\ CASE index = NoIndex ->
              /\ req' = [req EXCEPT ![r].pc = "done", ![r].status = "error500"]
              /\ UNCHANGED store
         [] req[r].kind = "indexEntry" ->
              /\ store' = [store EXCEPT ![index][req[r].id] = req[r].key]
              /\ req' = [req EXCEPT ![r].pc = "done", ![r].status = "ok",
                                    ![r].target = index]
         [] req[r].kind = "removeEntry" ->
              /\ store' = [store EXCEPT ![index][req[r].id] = Absent]
              /\ req' = [req EXCEPT
                     ![r].pc = "done",
                     ![r].status = DeleteOneStatus(store[index][req[r].id] # Absent),
                     ![r].found = store[index][req[r].id] # Absent,
                     ![r].target = index]
         [] req[r].kind = "updateEntry" ->
              /\ store' = [store EXCEPT ![index][req[r].id] = Absent]
              /\ req' = [req EXCEPT ![r].pc = "done", ![r].status = "ok",
                                    ![r].removedFrom = index]
         [] OTHER ->
              /\ req' = [req EXCEPT ![r].pc = "done", ![r].status = "ok",
                                    ![r].target = index,
                                    ![r].results = Matches(index)]
              /\ UNCHANGED store
    /\ isInitialized' = initd
    /\ UNCHANGED <<index, currentIndexName>>

\* indexEntry / deleteEntry / search: ensureInitialized(stackApiKey), then
\* the operation on this.index
EnsureThenOperate(r, initd) ==
    LET stackApiKey == OpKey(r) IN
    IF \/ ~initd
       \/ (stackApiKey # NoKey /\ currentIndexName # generateIndexName(stackApiKey))
    THEN IF stackApiKey = NoKey
         THEN \* initialize(null) throws AppError 400
              /\ req' = [req EXCEPT ![r].pc = "done", ![r].status = "error400"]
              /\ isInitialized' = initd
              /\ UNCHANGED <<index, currentIndexName, store>>
         ELSE \* initialize cannot take its early return here
              Rebind(r, stackApiKey, "operate", initd)
    ELSE Operate(r, initd)

\* what follows the return of setStackIndex: indexEntryWithImages awaits the
\* embedding of the text; removeEntry and semanticSearch call the vector
\* operation at once
AfterSetStackIndex(r, initd) ==
    IF req[r].kind = "indexEntry"
    THEN /\ req' = [req EXCEPT ![r].pc = "ensure"]
         /\ isInitialized' = initd
         /\ UNCHANGED <<index, currentIndexName, store>>
    ELSE EnsureThenOperate(r, initd)

\* a request arrives: IndexingService.indexEntryWithImages, IndexingService.removeEntry
\* or TextSearchController.semanticSearch for stack `key`
StartRequest(r, kind, key, id) ==
    /\ req[r].pc = "idle"
    /\ req' = [req EXCEPT ![r] = [IdleReq EXCEPT !.kind = kind, !.key = key,
                                                 !.id = id, !.pc = "bind"]]
    /\ UNCHANGED <<index, currentIndexName, isInitialized, store>>
    /\ UNCHANGED <<credVars, extVars>>

\* VectorSearchService.setStackIndex(stackApiKey)
SetStackIndex(r) ==
    /\ req[r].pc = "bind"
    /\ IF AlreadyBound(req[r].key, isInitialized)
       THEN AfterSetStackIndex(r, isInitialized)
       ELSE Rebind(r, req[r].key, "setStackIndex", isInitialized)
    /\ UNCHANGED <<credVars, extVars>>

\* initialize: `await this.index.describeIndexStats()` resolves, which takes
\* an index that exists; isInitialized is set and the caller goes on
DescribeIndexStatsOk(r) ==
    /\ req[r].pc = "describe"
    /\ indexes[index] # "absent"
    /\ IF req[r].ret = "setStackIndex"
       THEN AfterSetStackIndex(r, TRUE)
       ELSE Operate(r, TRUE)
    /\ UNCHANGED <<credVars, extVars>>

\* initialize: describeIndexStats rejects, initialize throws AppError 500
DescribeIndexStatsFail(r) ==
    /\ req[r].pc = "describe"
    /\ req' = [req EXCEPT ![r].pc = "done", ![r].status = "error500"]
    /\ UNCHANGED <<index, currentIndexName, isInitialized, store>>
    /\ UNCHANGED <<credVars, extVars>>

\* indexEntryWithImages: the embedding is there, vectorSearchService.indexEntry
\* is called
IndexEntry(r) ==
    /\ req[r].pc = "ensure"
    /\ EnsureThenOperate(r, isInitialized)
    /\ UNCHANGED <<credVars, extVars>>

\* SyncController.updateEntry arrives for stack `key` and awaits
\* contentstackService.fetchEntryByUid
StartUpdateEntry(r, key, id) ==
    /\ req[r].pc = "idle"
    /\ req' = [req EXCEPT ![r] = [IdleReq EXCEPT !.kind = "updateEntry",
                                                 !.key = key, !.id = id,
                                                 !.pc = "upFetch"]]
    /\ UNCHANGED <<index, currentIndexName, isInitialized, store>>
    /\ UNCHANGED <<credVars, extVars>>

\* the entry is fetched; IndexingService.updateEntry calls removeEntry(entry.uid)
\* without a stack key, so deleteEntry's ensureInitialized(null) binds nothing
\* and deleteOne goes to this.index; then the text is sent to be embedded
UpdateEntryFetched(r) ==
    /\ req[r].pc = "upFetch"
    /\ IF ~isInitialized
       THEN \* initialize(null) throws AppError 400
            /\ req' = [req EXCEPT ![r].pc = "done", ![r].status = "error400"]
            /\ UNCHANGED store
       ELSE /\ store' = [store EXCEPT ![index][req[r].id] = Absent]
            /\ req' = [req EXCEPT ![r].pc = "upEmbed", ![r].removedFrom = index]
    /\ UNCHANGED <<index, currentIndexName, isInitialized>>
    /\ UNCHANGED <<credVars, extVars>>

\* the entry is gone at the CMS: setStackIndex(stackApiKey), then
\* indexingService.removeEntry(entryUid)
UpdateEntryGone(r) ==
    /\ req[r].pc = "upFetch"
    /\ req' = [req EXCEPT ![r].pc = "bind"]
    /\ UNCHANGED <<index, currentIndexName, isInitialized, store>>
    /\ UNCHANGED <<credVars, extVars>>

\* IndexingService.updateEntry calls indexEntry(entry, contentType) without a
\* stack key: the embedding is there and the upsert goes to this.index
UpdateEntryEmbedded(r) ==
    /\ req[r].pc = "upEmbed"
    /\ IF ~isInitialized
       THEN /\ req' = [req EXCEPT ![r].pc = "done", ![r].status = "error400"]
            /\ UNCHANGED store
       ELSE /\ store' = [store EXCEPT ![index][req[r].id] = req[r].key]
            /\ req' = [req EXCEPT ![r].pc = "done", ![r].status = "ok",
                                  ![r].target = index]
    /\ UNCHANGED <<index, currentIndexName, isInitialized>>
    /\ UNCHANGED <<credVars, extVars>>

\* generateTextEmbedding throws: the update fails after the removal
UpdateEntryEmbeddingFails(r) ==
    /\ req[r].pc = "upEmbed"
    /\ req' = [req EXCEPT ![r].pc = "done", ![r].status = "error500"]
    /\ UNCHANGED <<index, currentIndexName, isInitialized, store>>
    /\ UNCHANGED <<credVars, extVars>>

\* the response has been sent; the slot is free for the next request
Finish(r) ==
    /\ req[r].pc = "done"
    /\ req' = [req EXCEPT ![r] = IdleReq]
    /\ UNCHANGED <<index, currentIndexName, isInitialized, store>>
    /\ UNCHANGED <<credVars, extVars>>

-----------------------------------------------------------------------------
(* The webhook receivers *)

\* router.post('/entry-sync') of the webhook router with setImmediate, and
\* handleWebhook of routes/webhookRoutes.js
Receivers == {"entrySync", "handleWebhook"}

\* entry.publish / entry.update, and entry.delete / entry.unpublish
Events == {"update", "delete"}

IdleHook ==
    [receiver |-> "none", event |-> "none", key |-> NoKey, id |-> "e1",
     pc |-> "idle",
     \* the response to the CMS
     ack |-> "none",
     \* the place of the event in the order of arrival
     seq |-> 0,
     \* whether the work for the event had begun when the response was sent
     workBeforeAck |-> FALSE]

\* the indexing service call that the event leads to
WorkOf(event) == IF event = "delete" THEN "removeEntry" ELSE "indexEntry"

\* how many events have arrived
Arrived == Cardinality({r \in Reqs : hook[r].pc # "idle"})

\* an event arrives. The /entry-sync route answers at once and leaves the
\* work to setImmediate; handleWebhook calls handleEntryWebhook and awaits it
ReceiveWebhook(r, receiver, event, key, id) ==
    /\ hook[r].pc = "idle"
    /\ req[r].pc = "idle"
    /\ LET h == [IdleHook EXCEPT !.receiver = receiver, !.event = event,
                                 !.key = key, !.id = id, !.seq = Arrived + 1]
       IN IF receiver = "entrySync"
          THEN /\ hook' = [hook EXCEPT ![r] = [h EXCEPT !.pc = "scheduled",
                                                      !.ack = "received"]]
               /\ UNCHANGED req
          ELSE /\ hook' = [hook EXCEPT ![r] = [h EXCEPT !.pc = "working"]]
               /\ req' = [req EXCEPT ![r] =
                     [IdleReq EXCEPT !.kind = WorkOf(event), !.key = key,
                                     !.id = id, !.pc = "bind"]]
    /\ UNCHANGED <<index, currentIndexName, isInitialized, store>>
    /\ UNCHANGED <<credVars, naming, indexes, job, run, vectors, srch>>

\* the setImmediate callback of /entry-sync runs and calls removeEntry or
\* indexEntry
WebhookWorkStarts(r) ==
    /\ hook[r].pc = "scheduled"
    /\ hook' = [hook EXCEPT ![r].pc = "working"]
    /\ req' = [req EXCEPT ![r] =
          [IdleReq EXCEPT !.kind = WorkOf(hook[r].event), !.key = hook[r].key,
                          !.id = hook[r].id, !.pc = "bind"]]
    /\ UNCHANGED <<index, currentIndexName, isInitialized, store>>
    /\ UNCHANGED <<credVars, naming, indexes, job, run, vectors, srch>>

\* the work for the event has ended: handleWebhook answers with success or
\* with 500; the callback of /entry-sync only logs
WebhookWorkEnds(r) ==
    /\ hook[r].pc = "working"
    /\ req[r].pc = "done"
    /\ hook' = [hook EXCEPT ![r] =
          IF hook[r].receiver = "handleWebhook"
          THEN [@ EXCEPT !.pc = "done", !.workBeforeAck = TRUE,
                         !.ack = IF req[r].status = "ok"
                                 THEN "success" ELSE "error500"]
          ELSE [@ EXCEPT !.pc = "done"]]
    /\ UNCHANGED bindVars
    /\ UNCHANGED <<credVars, naming, indexes, job, run, vectors, srch>>

-----------------------------------------------------------------------------
(* PineconeIndexService.createStackIndex and waitForIndexReady *)

\* waitForIndexReady: maxWaitTime and checkInterval, in milliseconds
MaxWaitTime == 60000

CheckInterval == 2000

Jobs == 1..NumJobs

IdleJob ==
    [key |-> NoKey, pc |-> "idle", elapsed |-> 0, outcome |-> "none",
     created |-> FALSE,
     \* why the call failed, and whether it waited for the index
     failure |-> "none", polled |-> FALSE]

IndexOf(j) == generateIndexName(job[j].key)

\* createStackIndex returns its result; the locals of the call are gone
JobReturns(j, created) ==
    job' = [job EXCEPT ![j].pc = "done", ![j].outcome = "ok",
                       ![j].created = created, ![j].elapsed = 0]

\* an error reaches the catch block of createStackIndex, which throws
\* AppError('Failed to create index for stack: ...', 500)
JobThrows(j, failure) ==
    job' = [job EXCEPT ![j].pc = "done", ![j].outcome = "error",
                       ![j].failure = failure, ![j].elapsed = 0]

\* the OAuth callback, or the index management endpoint, calls
\* createStackIndex(stackApiKey), which awaits indexExists
StartCreateStackIndex(j, key) ==
    /\ job[j].pc \in {"idle", "done"}
    /\ job' = [job EXCEPT ![j] = [IdleJob EXCEPT !.key = key, !.pc = "exists"]]
    /\ UNCHANGED <<bindVars, credVars, srch, hook, naming, indexes, indexingVars>>

\* indexExists: listIndexes resolves; an index that is listed ends the call
\* with 'Index already exists', else pinecone.createIndex is called
IndexExists(j) ==
    /\ job[j].pc = "exists"
    /\ IF indexes[IndexOf(j)] # "absent"
       THEN JobReturns(j, FALSE)
       ELSE job' = [job EXCEPT ![j].pc = "create"]
    /\ UNCHANGED <<bindVars, credVars, srch, hook, naming, indexes, indexingVars>>

\* indexExists: listIndexes rejects
IndexExistsFails(j) ==
    /\ job[j].pc = "exists"
    /\ JobThrows(j, "listFailed")
    /\ UNCHANGED <<bindVars, credVars, srch, hook, naming, indexes, indexingVars>>

\* pinecone.createIndex resolves: the index is there and is being provisioned;
\* waitForIndexReady starts its clock.  A name that is taken is refused (409)
CreateIndex(j) ==
    /\ job[j].pc = "create"
    /\ IF indexes[IndexOf(j)] = "absent"
       THEN /\ indexes' = [indexes EXCEPT ![IndexOf(j)] = "initializing"]
            /\ job' = [job EXCEPT ![j].pc = "poll", ![j].elapsed = 0,
                                  ![j].polled = TRUE]
       ELSE /\ JobThrows(j, "conflict")
            /\ UNCHANGED indexes
    /\ UNCHANGED <<bindVars, credVars, srch, hook, naming, indexingVars>>

\* pinecone.createIndex rejects for a reason of the provider
CreateIndexFails(j) ==
    /\ job[j].pc = "create"
    /\ JobThrows(j, "createFailed")
    /\ UNCHANGED <<bindVars, credVars, srch, hook, naming, indexes, indexingVars>>

\* waitForIndexReady: listIndexes resolves; a ready index ends the wait,
\* else the loop sleeps for checkInterval
PollListIndexes(j) ==
    /\ job[j].pc = "poll"
    /\ IF indexes[IndexOf(j)] = "ready"
       THEN JobReturns(j, TRUE)
       ELSE job' = [job EXCEPT ![j].pc = "sleep"]
    /\ UNCHANGED <<bindVars, credVars, srch, hook, naming, indexes, indexingVars>>

\* waitForIndexReady: listIndexes rejects: 'Failed to check index status'
PollListFails(j) ==
    /\ job[j].pc = "poll"
    /\ JobThrows(j, "statusCheckFailed")
    /\ UNCHANGED <<bindVars, credVars, srch, hook, naming, indexes, indexingVars>>

\* waitForIndexReady with a loop that measures from the last check instead
\* of from startTime
PollSleepFromLastCheck(j) ==
    /\ job[j].pc = "sleep"
    /\ job' = [job EXCEPT ![j].pc = "poll"]
    /\ UNCHANGED <<bindVars, credVars, srch, hook, naming, indexes, indexingVars>>

\* waitForIndexReady: the sleep is over and the loop condition
\* Date.now() - startTime < maxWaitTime is tested again
PollSleep(j) ==
    /\ job[j].pc = "sleep"
    /\ LET elapsed == job[j].elapsed + CheckInterval
       IN IF elapsed < MaxWaitTime
          THEN job' = [job EXCEPT ![j].pc = "poll", ![j].elapsed = elapsed]
          ELSE JobThrows(j, "timeout")
    /\ UNCHANGED <<bindVars, credVars, srch, hook, naming, indexes, indexingVars>>

\* Pinecone has provisioned an index
IndexBecomesReady(ix) ==
    /\ indexes[ix] = "initializing"
    /\ indexes' = [indexes EXCEPT ![ix] = "ready"]
    /\ UNCHANGED <<bindVars, credVars, srch, hook, naming, job, indexingVars>>

-----------------------------------------------------------------------------
(* IndexingService.indexAllEntries and indexEntryWithImages *)

EntryUids == {"e1", "e2"}

\* what extractTitleAndRTE makes of an entry; "" is no text
Texts == {"", "t1", "t2"}

\* the entries of the CMS: uid, text and number of embeddable images
CmsEntries == [uid : EntryUids, text : Texts, images : 0..MaxImages]

EntryLists == UNION {[1..n -> CmsEntries] : n \in 0..MaxEntries}

\* errorsList.slice(0, 10)
ErrorsListCap == 10

\* prepareEntryForIndexing: the id of the document is the uid of the entry
DocumentId(entry) == <<entry.uid>>

\* prepareImagesForIndexing: `${entry.uid}_img_${index}`
ImageId(entry, imageIndex) == <<entry.uid, "_img_", imageIndex>>

\* this.index.upsert: the record replaces the record of the same id
Upsert(S, rec) == {v \in S : v.id # rec.id} \cup {rec}

NoResult == [success |-> FALSE]

\* the summary of a run that found nothing to index
EmptySummary ==
    [success |-> TRUE, indexed |-> 0, skipped |-> 0, errors |-> 0,
     imagesIndexed |-> 0, message |-> "No entries found to index"]

\* this.batchSize
BatchSize == 50

\* setTimeout(resolve, 100) between two batches
PauseMs == 100

IdleRun ==
    [pc |-> "fetch", entries |-> <<>>, i |-> 0, textIndexed |-> FALSE,
     imagesNow |-> 0, imagesGot |-> 0, target |-> NoIndex,
     indexed |-> 0, skipped |-> 0, errors |-> 0, imagesIndexed |-> 0,
     errorsList |-> <<>>, result |-> NoResult,
     \* the number of entries of each content type group of allEntries, in
     \* order, and the group the loop is in
     groups |-> <<>>, g |-> 0,
     \* the entries begun since the start or the last pause, the pauses taken
     \* and the time spent in them
     sincePause |-> 0, pauses |-> 0, waited |-> 0,
     \* how each entry ended, and the text last upserted for each uid
     fate |-> <<>>, lastText |-> [u \in EntryUids |-> ""]]

RECURSIVE SumTo(_, _)
\* the number of entries of the first n groups
SumTo(sizes, n) == IF n = 0 THEN 0 ELSE sizes[n] + SumTo(sizes, n - 1)

\* the loops are over: indexAllEntries builds its result and returns it
Summary(rec) ==
    [rec EXCEPT !.pc = "done", !.textIndexed = FALSE,
                !.imagesNow = 0, !.imagesGot = 0, !.target = NoIndex,
                !.result = [success |-> TRUE, indexed |-> rec.indexed,
                            skipped |-> rec.skipped, errors |-> rec.errors,
                            imagesIndexed |-> rec.imagesIndexed,
                            totalProcessed |->
                                rec.indexed + rec.skipped + rec.errors,
                            errorsList |->
                                SubSeq(rec.errorsList, 1,
                                       Min(ErrorsListCap, Len(rec.errorsList)))]]

RECURSIVE EnterGroup(_, _)
\* the loops reach group n: its first entry is begun; a group without entries
\* is passed; after the last group of a batch that is not the last batch the
\* run pauses; after the last group it returns
EnterGroup(rec, n) ==
    IF n > Len(rec.groups)
    THEN Summary(rec)
    ELSE IF rec.groups[n] > 0
         THEN [rec EXCEPT !.g = n, !.i = @ + 1, !.pc = "setIndex",
                          !.sincePause = @ + 1, !.textIndexed = FALSE,
                          !.imagesNow = 0, !.imagesGot = 0, !.target = NoIndex]
         ELSE IF n % BatchSize = 0 /\ n < Len(rec.groups)
              THEN [rec EXCEPT !.g = n, !.pc = "pause", !.textIndexed = FALSE,
                               !.imagesNow = 0, !.imagesGot = 0,
                               !.target = NoIndex]
              ELSE EnterGroup(rec, n + 1)

\* an entry is dealt with: the loop goes on with the next entry of the group,
\* or leaves the group
NextEntry(rec) ==
    IF rec.i < SumTo(rec.groups, rec.g)
    THEN [rec EXCEPT !.i = @ + 1, !.pc = "setIndex", !.sincePause = @ + 1,
                     !.textIndexed = FALSE,
                     !.imagesNow = 0, !.imagesGot = 0, !.target = NoIndex]
    ELSE IF rec.g % BatchSize = 0 /\ rec.g < Len(rec.groups)
         THEN [rec EXCEPT !.pc = "pause", !.textIndexed = FALSE,
                          !.imagesNow = 0, !.imagesGot = 0, !.target = NoIndex]
         ELSE EnterGroup(rec, rec.g + 1)

\* a loop that counts an entry only when its text was indexed
EntryReturnsUncounted(rec) ==
    NextEntry([rec EXCEPT
        !.indexed = IF rec.textIndexed THEN @ + 1 ELSE @,
        !.imagesIndexed = @ + rec.imagesNow,
        !.fate = Append(@, IF rec.textIndexed THEN "indexed" ELSE "skipped")])

\* indexEntryWithImages returns { textIndexed, imagesIndexed }
EntryReturns(rec) ==
    NextEntry([rec EXCEPT
        !.indexed = IF rec.textIndexed THEN @ + 1 ELSE @,
        !.skipped = IF rec.textIndexed THEN @ ELSE @ + 1,
        !.imagesIndexed = @ + rec.imagesNow,
        !.fate = Append(@, IF rec.textIndexed THEN "indexed" ELSE "skipped")])

\* the catch block of the loop, which ends the whole run at the first error
EntryThrowsAndEndsRun(rec, why) ==
    [NextEntry([rec EXCEPT
        !.errors = @ + 1,
        !.errorsList = Append(@, [entryUid |-> rec.entries[rec.i].uid,
                                  error |-> why]),
        !.fate = Append(@, why),
        !.i = Len(rec.entries),
        !.g = Len(rec.groups)]) EXCEPT !.i = rec.i, !.g = rec.g]

\* indexEntryWithImages throws; the catch block of the loop counts the error
\* and records it
EntryThrows(rec, why) ==
    NextEntry([rec EXCEPT
        !.errors = @ + 1,
        !.errorsList = Append(@, [entryUid |-> rec.entries[rec.i].uid,
                                  error |-> why]),
        !.fate = Append(@, why)])

\* indexEntryWithImages: the text is dealt with; the images follow, if any
AfterText(rec) ==
    IF rec.entries[rec.i].images = 0
    THEN EntryReturns(rec)
    ELSE [rec EXCEPT !.pc = "imgEmbed"]

\* the stack whose entries indexAllEntries indexes, and its index
RunKey == KeyA

RunIndex == generateIndexName(RunKey)

\* prepareEntryForIndexing gives null for an entry without text; else the
\* text is sent to be embedded
Prepared(rec) ==
    IF rec.entries[rec.i].text = ""
    THEN AfterText(rec)
    ELSE [rec EXCEPT !.pc = "embed"]

\* vectorSearchService.indexEntry / indexImage: ensureInitialized(stackApiKey),
\* then this.index.upsert is issued on the index bound at that moment
EnsureThenUpsert(rec, upsertPc, describePc) ==
    IF AlreadyBound(RunKey, isInitialized)
    THEN /\ run' = [rec EXCEPT !.pc = upsertPc, !.target = index]
         /\ UNCHANGED <<index, currentIndexName, isInitialized>>
    ELSE /\ index' = RunIndex
         /\ currentIndexName' = RunIndex
         /\ run' = [rec EXCEPT !.pc = describePc]
         /\ UNCHANGED isInitialized

\* getValidAccessToken and fetchAllEntries resolve; without entries the
\* summary of an empty run is returned
IndexAllFetched ==
    /\ run.pc = "fetch"
    /\ run' = IF Len(run.groups) = 0
              THEN [run EXCEPT !.pc = "done", !.result = EmptySummary]
              ELSE EnterGroup(run, 1)
    /\ UNCHANGED <<bindVars, credVars, srch, hook, naming, indexes, job, vectors>>

\* the pause between two batches is over: the next batch begins
BatchPaused ==
    /\ run.pc = "pause"
    /\ run' = EnterGroup([run EXCEPT !.sincePause = 0, !.pauses = @ + 1,
                                     !.waited = @ + PauseMs], run.g + 1)
    /\ UNCHANGED <<bindVars, credVars, srch, hook, naming, indexes, job, vectors>>

\* getValidAccessToken or fetchAllEntries rejects: indexAllEntries throws
IndexAllFetchFails ==
    /\ run.pc = "fetch"
    /\ run' = [run EXCEPT !.pc = "failed"]
    /\ UNCHANGED <<bindVars, credVars, srch, hook, naming, indexes, job, vectors>>

\* indexEntryWithImages: setStackIndex(stackApiKey) returns at once when the
\* index of the stack is bound, else binds it and awaits describeIndexStats
EntrySetStackIndex ==
    /\ run.pc = "setIndex"
    /\ IF AlreadyBound(RunKey, isInitialized)
       THEN /\ run' = Prepared(run)
            /\ UNCHANGED <<index, currentIndexName, isInitialized>>
       ELSE /\ index' = RunIndex
            /\ currentIndexName' = RunIndex
            /\ run' = [run EXCEPT !.pc = "setIndexDescribe"]
            /\ UNCHANGED isInitialized
    /\ UNCHANGED <<store, req, credVars, srch, hook, naming, indexes, job, vectors>>

\* initialize: describeIndexStats resolves and isInitialized is set; the
\* caller goes on, with the upsert on the index that is bound by now
RunDescribeIndexStatsOk ==
    /\ run.pc \in {"setIndexDescribe", "upsertDescribe", "imgDescribe"}
    /\ isInitialized' = TRUE
    /\ run' = CASE run.pc = "setIndexDescribe" -> Prepared(run)
                [] run.pc = "upsertDescribe" ->
                       [run EXCEPT !.pc = "upsert", !.target = index]
                [] OTHER -> [run EXCEPT !.pc = "imgUpsert", !.target = index]
    /\ UNCHANGED <<index, currentIndexName, store, req>>
    /\ UNCHANGED <<credVars, srch, hook, naming, indexes, job, vectors>>

\* initialize: describeIndexStats rejects and initialize throws AppError 500
RunDescribeIndexStatsFail ==
    /\ run.pc \in {"setIndexDescribe", "upsertDescribe", "imgDescribe"}
    /\ run' = EntryThrows(run, "initializeFailed")
    /\ UNCHANGED <<bindVars, credVars, srch, hook, naming, indexes, job, vectors>>

\* generateTextEmbedding resolves with the vector and
\* vectorSearchService.indexEntry is called
EntryEmbedded ==
    /\ run.pc = "embed"
    /\ EnsureThenUpsert(run, "upsert", "upsertDescribe")
    /\ UNCHANGED <<store, req, credVars, srch, hook, naming, indexes, job, vectors>>

\* generateTextEmbedding rejects
EntryEmbeddingFails ==
    /\ run.pc = "embed"
    /\ run' = EntryThrows(run, "embeddingFailed")
    /\ UNCHANGED <<bindVars, credVars, srch, hook, naming, indexes, job, vectors>>

\* vectorSearchService.indexEntry: the upsert resolves
EntryUpserted ==
    /\ run.pc = "upsert"
    /\ LET entry == run.entries[run.i]
       IN /\ vectors' = [vectors EXCEPT ![run.target] =
                 Upsert(@, [id |-> DocumentId(entry), entryUid |-> entry.uid,
                            type |-> "text", text |-> entry.text])]
          /\ run' = AfterText([run EXCEPT !.textIndexed = TRUE,
                                          !.lastText[entry.uid] = entry.text])
    /\ UNCHANGED <<bindVars, credVars, srch, hook, naming, indexes, job>>

\* vectorSearchService.indexEntry: the upsert rejects
EntryUpsertFails ==
    /\ run.pc = "upsert"
    /\ run' = EntryThrows(run, "upsertFailed")
    /\ UNCHANGED <<bindVars, credVars, srch, hook, naming, indexes, job, vectors>>

\* generateBatchImageEmbeddings resolves with the embeddings of `got` of the
\* images, the failures of the others being kept in its own error list;
\* vectorSearchService.indexImage is called for the first of them
ImagesEmbedded(got) ==
    /\ run.pc = "imgEmbed"
    /\ got \in 0..run.entries[run.i].images
    /\ IF got = 0
       THEN /\ run' = EntryReturns(run)
            /\ UNCHANGED <<index, currentIndexName, isInitialized>>
       ELSE EnsureThenUpsert([run EXCEPT !.imagesGot = got],
                             "imgUpsert", "imgDescribe")
    /\ UNCHANGED <<store, req, credVars, srch, hook, naming, indexes, job, vectors>>

\* vectorSearchService.indexImage: the upsert resolves; the next image
\* follows, or indexEntryWithImages returns
ImageUpserted ==
    /\ run.pc = "imgUpsert"
    /\ LET entry == run.entries[run.i]
           rec == [run EXCEPT !.imagesNow = @ + 1]
       IN /\ vectors' = [vectors EXCEPT ![run.target] =
                 Upsert(@, [id |-> ImageId(entry, run.imagesNow),
                            entryUid |-> entry.uid,
                            type |-> "image", text |-> ""])]
          /\ IF rec.imagesNow = rec.imagesGot
             THEN /\ run' = EntryReturns(rec)
                  /\ UNCHANGED <<index, currentIndexName, isInitialized>>
             ELSE EnsureThenUpsert(rec, "imgUpsert", "imgDescribe")
    /\ UNCHANGED <<store, req, credVars, srch, hook, naming, indexes, job>>

\* vectorSearchService.indexImage: the upsert rejects
ImageUpsertFails ==
    /\ run.pc = "imgUpsert"
    /\ run' = EntryThrows(run, "imageUpsertFailed")
    /\ UNCHANGED <<bindVars, credVars, srch, hook, naming, indexes, job, vectors>>

-----------------------------------------------------------------------------
(* The search controllers *)

\* searchText and semanticSearch of the search controller,
\* TextSearchController.searchText and HybridSearchController.searchHybrid
Handlers == {"searchText", "semanticSearch", "basicSearchText", "searchHybrid"}

\* the handlers that run the pipeline of reranking, enrichment and logging
Pipelined == {"searchText", "semanticSearch"}

\* the class RerankerService and the function rerankResults
Rerankers == {"class", "functional"}

\* topK (semanticSearch) or limit (the other handlers) of the request
TopKs == {1, 2, 25}

\* how the reranking provider can fail
RerankFailures == {"timeout", "401", "429", "5xx", "malformed"}

\* what fetchEntryByUid gives for a candidate: the entry, null, or an error
EnrichOutcomes == {"entry", "null", "throws"}

\* Math.min(topK * 2, 20)
MaxCandidates == 20

\* rerankResults(query, results, topK = 10)
DefaultRerankTopK == 10

\* VectorSearchService.search and RerankerService.rerankResults: topK < 1 || topK > 100
MinTopK == 1

MaxTopK == 100

NoResponse == [status |-> "none", code |-> 0, results |-> <<>>, total |-> 0]

OkResponse(results) ==
    [status |-> "ok", code |-> 200, results |-> results, total |-> Len(results)]

ErrorResponse(code) ==
    [status |-> "error", code |-> code, results |-> <<>>, total |-> 0]

NoLog == [success |-> FALSE, resultsCount |-> 0, saved |-> FALSE]

IdleSearch ==
    [pc |-> "idle", handler |-> "none", reranker |-> "none", topK |-> 0,
     useReranking |-> FALSE, query |-> "", stored |-> 0,
     asked |-> 0, queried |-> FALSE, candidates |-> <<>>,
     processed |-> <<>>, k |-> 0,
     enriched |-> <<>>, pending |-> NoResponse, response |-> NoResponse,
     \* the SearchLog documents that logSearch tried to save, and the last one
     logs |-> 0, log |-> NoLog,
     \* how the reranking call ended, and the candidates enrichment dropped
     rerank |-> "none", dropped |-> 0]

Reverse(s) == [n \in 1..Len(s) |-> s[Len(s) + 1 - n]]

\* results.slice(0, n)
Take(s, n) == SubSeq(s, 1, Min(n, Len(s)))

\* the handler throws: searchText and semanticSearch log the failure in their
\* catch block and rethrow; the two other handlers have no catch block
Throws(rec, code) ==
    IF rec.handler \in Pipelined
    THEN [rec EXCEPT !.pc = "log", !.pending = ErrorResponse(code)]
    ELSE [rec EXCEPT !.pc = "done", !.response = ErrorResponse(code)]

\* the handler has its results: searchText and semanticSearch log the search
\* before res.json, the two other handlers answer at once
Returns(rec, results) ==
    IF rec.handler \in Pipelined
    THEN [rec EXCEPT !.pc = "log", !.pending = OkResponse(results)]
    ELSE [rec EXCEPT !.pc = "done", !.response = OkResponse(results)]

\* no vector matched and the handler threw a not-found error
EmptyResultIsNotFound(rec) == Throws(rec, 404)

\* no vector matched: the handler answers with an empty list
EmptyResult(rec) == Returns(rec, <<>>)

\* the topK that the handler hands to vectorSearchService.search
Asked(rec) ==
    IF rec.handler \in Pipelined
    THEN Min(rec.topK * 2, MaxCandidates)
    ELSE rec.topK

\* the topK that the handler hands to rerankResults: searchText hands none
RerankTopK(rec) ==
    IF rec.handler = "searchText" THEN DefaultRerankTopK ELSE rec.topK

\* rerankResults: what it returns or throws for the answer of the provider;
\* the provider ranks the documents in the reverse of their similarity order
\* and answers with the top_k best
rerankResults(reranker, results, topK, outcome) ==
    IF reranker = "class"
    THEN CASE topK < MinTopK \/ topK > MaxTopK ->
                  [threw |-> TRUE, code |-> 400, results |-> <<>>]
           [] outcome = "ok" ->
                  [threw |-> FALSE, code |-> 0,
                   results |-> Take(Reverse(Take(results, 100)), topK)]
           [] outcome = "429" -> [threw |-> TRUE, code |-> 429, results |-> <<>>]
           [] outcome = "401" -> [threw |-> TRUE, code |-> 401, results |-> <<>>]
           [] outcome = "5xx" -> [threw |-> TRUE, code |-> 503, results |-> <<>>]
           [] OTHER -> [threw |-> FALSE, code |-> 0,
                        results |-> Take(Take(results, 100), topK)]
    ELSE IF outcome = "ok"
         THEN [threw |-> FALSE, code |-> 0,
               results |-> Take(Reverse(results), topK)]
         ELSE [threw |-> FALSE, code |-> 0, results |-> results]

\* enrichResultsWithContentstackData is called with the reranked results
AfterRerank(rec, processed) ==
    IF Len(processed) = 0
    THEN Returns(rec, <<>>)
    ELSE [rec EXCEPT !.processed = processed, !.pc = "enrich", !.k = 1]

\* a request arrives at a handler
StartSearch(handler, reranker, topK, useReranking, query, stored) ==
    /\ srch.pc = "idle"
    /\ LET rec == [srch EXCEPT !.handler = handler, !.reranker = reranker,
                               !.topK = topK, !.useReranking = useReranking,
                               !.query = query, !.stored = stored]
       IN srch' = IF handler # "semanticSearch" /\ query = ""
                  THEN \* thrown before the try block
                       [rec EXCEPT !.pc = "done", !.response = ErrorResponse(400)]
                  ELSE [rec EXCEPT !.pc = "embed"]
    /\ UNCHANGED <<bindVars, credVars, hook, naming, indexes, job, run, vectors>>

\* generateTextEmbedding resolves; setStackIndex or ensureInitialized follows
QueryEmbedded ==
    /\ srch.pc = "embed"
    /\ srch.query # ""
    /\ srch' = [srch EXCEPT !.pc = "bind"]
    /\ UNCHANGED <<bindVars, credVars, hook, naming, indexes, job, run, vectors>>

\* generateTextEmbedding throws, as it does for an empty text
QueryEmbeddingFails ==
    /\ srch.pc = "embed"
    /\ srch' = Throws(srch, IF srch.query = "" THEN 400 ELSE 500)
    /\ UNCHANGED <<bindVars, credVars, hook, naming, indexes, job, run, vectors>>

\* the index is bound; VectorSearchService.search checks topK and queries
SearchBound ==
    /\ srch.pc = "bind"
    /\ LET rec == [srch EXCEPT !.asked = Asked(srch)]
       IN srch' = IF rec.asked < MinTopK \/ rec.asked > MaxTopK
                  THEN Throws(rec, 400)
                  ELSE [rec EXCEPT !.pc = "query"]
    /\ UNCHANGED <<bindVars, credVars, hook, naming, indexes, job, run, vectors>>

\* initialize throws
SearchBindFails ==
    /\ srch.pc = "bind"
    /\ srch' = Throws(srch, 500)
    /\ UNCHANGED <<bindVars, credVars, hook, naming, indexes, job, run, vectors>>

\* this.index.query resolves with the matches, at most topK of them
VectorQueried ==
    /\ srch.pc = "query"
    /\ LET found == [n \in 1..Min(srch.asked, srch.stored) |-> n]
           rec == [srch EXCEPT !.candidates = found, !.queried = TRUE]
       IN srch' = CASE Len(found) = 0 -> EmptyResult(rec)
                    [] srch.handler \notin Pipelined -> Returns(rec, found)
                    [] srch.handler = "searchText" /\ ~srch.useReranking ->
                           AfterRerank(rec, found)
                    [] OTHER -> [rec EXCEPT !.pc = "rerank"]
    /\ UNCHANGED <<bindVars, credVars, hook, naming, indexes, job, run, vectors>>

\* this.index.query rejects: search throws AppError 500
VectorQueryFails ==
    /\ srch.pc = "query"
    /\ srch' = Throws(srch, 500)
    /\ UNCHANGED <<bindVars, credVars, hook, naming, indexes, job, run, vectors>>

\* the call of the reranking provider ends; searchText catches what
\* rerankResults throws and goes on with the vector results
Reranked(outcome) ==
    /\ srch.pc = "rerank"
    /\ LET answer == rerankResults(srch.reranker, srch.candidates,
                                   RerankTopK(srch), outcome)
           rec == [srch EXCEPT !.rerank = outcome]
       IN srch' = IF answer.threw
                  THEN IF srch.handler = "searchText"
                       THEN AfterRerank(rec, srch.candidates)
                       ELSE Throws(rec, answer.code)
                  ELSE AfterRerank(rec, answer.results)
    /\ UNCHANGED <<bindVars, credVars, hook, naming, indexes, job, run, vectors>>

\* the live entry could not be fetched and the candidate throws out the
\* whole enrichment
EnrichmentFailsRequest(rec) == Throws([rec EXCEPT !.dropped = @ + 1], 500)

\* the live entry is missing or could not be fetched: the candidate is left out
EnrichmentDrops(rec) == [rec EXCEPT !.dropped = @ + 1]

\* enrichResultsWithContentstackData: fetchEntryByUid for the next result;
\* after the last one searchText truncates to limit, semanticSearch does not
CandidateEnriched(outcome) ==
    /\ srch.pc = "enrich"
    /\ LET rec == IF outcome = "entry"
                  THEN [srch EXCEPT !.enriched = Append(@, srch.processed[srch.k])]
                  ELSE EnrichmentDrops(srch)
       IN srch' = CASE rec.pc # "enrich" -> rec
                    [] srch.k < Len(srch.processed) -> [rec EXCEPT !.k = @ + 1]
                    [] srch.handler = "searchText" ->
                           Returns(rec, Take(rec.enriched, srch.topK))
                    [] OTHER -> Returns(rec, rec.enriched)
    /\ UNCHANGED <<bindVars, credVars, hook, naming, indexes, job, run, vectors>>

\* logSearch: searchLog.save() resolves or rejects, which logSearch swallows;
\* then the response is sent or the error rethrown
SearchLogged(saved) ==
    /\ srch.pc = "log"
    /\ srch' = [srch EXCEPT
                   !.pc = "done",
                   !.logs = @ + 1,
                   !.log = [success |-> srch.pending.status = "ok",
                            resultsCount |-> srch.pending.total,
                            saved |-> saved],
                   !.response = srch.pending]
    /\ UNCHANGED <<bindVars, credVars, hook, naming, indexes, job, run, vectors>>

-----------------------------------------------------------------------------
(* OAuthToken documents, the token endpoint and error messages *)

SafetyMargin == 5

GraceWindow == 1440

RetentionWindow == 43200

DefaultExpiresIn == 60

MaxRetries == 2

\* how far the clock may jump between two steps
TickSteps == {56, 61, GraceWindow + DefaultExpiresIn}

Sweeper == 0

Callers == 1..NumProcs

\* the callers that send requests through authenticateStack
Requesters == 1..NumRequesters

Procs == {Sweeper} \cup Callers

NoToken ==
    [exists |-> FALSE, accessToken |-> 0, refreshToken |-> 0, expiresAt |-> 0,
     isActive |-> FALSE, updatedAt |-> 0]

\* no token data in hand
NoData == [accessToken |-> 0, refreshToken |-> 0, expiresAt |-> 0]

\* the stack key as it is spliced into a message
KeyWord(k) == IF k = KeyA THEN "blta1" ELSE IF k = KeyB THEN "bltb2" ELSE ""

\* error messages, word by word
MsgInvalidRefreshToken ==
    <<"Invalid", "refresh", "token", "-", "re-authentication", "required">>
MsgRefreshTokenExpired ==
    <<"Refresh", "token", "expired", "-", "re-authentication", "required">>
MsgInsufficientPermissions ==
    <<"Insufficient", "permissions", "to", "refresh", "token">>
MsgFailedRefreshAccessToken == <<"Failed", "to", "refresh", "access", "token">>
MsgFailedRefreshToken == <<"Failed", "to", "refresh", "token">>
MsgNoActiveToken(k) ==
    <<"No", "active", "token", "found", "for", "stack:", KeyWord(k)>>
MsgNoTokenForStack(k) == <<"No", "token", "found", "for", "stack:", KeyWord(k)>>
MsgNoTokenReauth(k) ==
    <<"No", "token", "found", "for", "stack:", KeyWord(k), "Please", "re-authenticate.">>
MsgInactiveRefreshFailed(k) ==
    <<"Token", "is", "inactive", "and", "refresh", "failed", "for", "stack:", KeyWord(k)>>
MsgTokenRefreshFailed(k) ==
    <<"Token", "refresh", "failed", "for", "stack:", KeyWord(k)>>
MsgRequestFailed == <<"Contentstack", "API", "request", "failed">>
MsgAuthRefreshUnsuccessful ==
    <<"Authentication", "failed", "-", "token", "refresh", "unsuccessful">>
MsgAuthTokenInvalid ==
    <<"Authentication", "failed", "-", "token", "may", "be", "invalid">>
MsgNoStacks ==
    <<"No", "stack", "API", "key", "provided", "and", "no", "stacks", "found">>

\* String.prototype.includes, on words
Includes(msg, needle) ==
    \E i \in 1..(Len(msg) - Len(needle) + 1) :
        SubSeq(msg, i, i + Len(needle) - 1) = needle

MsgFailedGetAccessToken == <<"Failed", "to", "get", "access", "token">>

\* new AppError(message, statusCode): the function builds an Error and returns
\* it, so what `new` yields has Error.prototype and not AppError.prototype
AppError(message, statusCode) ==
    [message |-> message, statusCode |-> statusCode, proto |-> "Error"]

\* error instanceof AppError
InstanceOfAppError(error) == error.proto = "AppError"

\* catch (error) { if (error instanceof AppError) throw error;
\*                 throw new AppError(message, 500) }
Rethrow(error, message) ==
    IF InstanceOfAppError(error) THEN error ELSE AppError(message, 500)

\* OAuthToken.findOne({ stackApiKey })
findOne(k) == tokens[k]

\* OAuthToken.findActiveByStackApiKey(stackApiKey)
findActiveByStackApiKey(k) ==
    IF tokens[k].exists /\ tokens[k].isActive /\ tokens[k].expiresAt > now
    THEN tokens[k]
    ELSE NoToken

\* OAuthToken.findOneAndUpdate({ stackApiKey }, { isActive: false })
MarkInactive(k) ==
    IF tokens[k].exists
    THEN [tokens EXCEPT ![k].isActive = FALSE, ![k].updatedAt = now]
    ELSE tokens

\* the token endpoint accepts refresh token rt of stack k
ProviderAccepts(k, rt) == provider[k].rt # 0 /\ rt = provider[k].rt

IdleProc ==
    [op |-> "none", hdr |-> NoKey, key |-> NoKey, pc |-> "idle",
     ctx |-> "none", gctx |-> "none", tok |-> NoToken, cur |-> NoToken,
     nd |-> NoData, err |-> <<>>, code |-> 0, retry |-> 0, token |-> 0,
     status |-> "none", list |-> <<>>, i |-> 0,
     \* what the call has seen and done, for the properties
     calledProvider |-> FALSE, peers |-> {}, pending |-> {},
     nearExpiry |-> FALSE, foundInactive |-> FALSE, retActive |-> FALSE,
     failKind |-> "none", markKind |-> "none", rejected |-> FALSE,
     revived |-> FALSE, missed |-> {}, ambiguous |-> FALSE,
     \* the tokens of tokensToRefresh that the sweep left without an attempt
     unattempted |-> {},
     \* whether the refresh wrote its tokens over tokens issued after them
     overwroteNewer |-> FALSE,
     \* the requests that makeAuthenticatedRequest has sent to the content
     \* API, and the access token of the last one that was answered with 401
     attempts |-> 0, rejectedToken |-> 0]

GvatOps == {"getValidAccessToken", "tsGetValidAccessToken"}

\* a refresh is in flight from the POST to the token endpoint until its
\* result is stored or its failure is known
InFlightPc(pc) == pc \in {"rauPost", "rauUpdate", "tsPost", "tsSave"}

\* the other getValidAccessToken calls for stack k that are under way
ConcurrentCalls(p, k) ==
    {q \in Callers \ {p} :
        /\ proc[q].op \in GvatOps
        /\ proc[q].key = k
        /\ proc[q].pc \notin {"idle", "done"}}

\* the other activities that have a refresh for stack k in flight
RefreshesInFlight(p, k) ==
    {q \in Procs \ {p} : proc[q].key = k /\ InFlightPc(proc[q].pc)}

\* process q goes on as rec; the calls that arrived during q's refresh learn
\* when it has ended
Commit(q, rec) ==
    [r \in Procs |->
        IF r = q THEN rec
        ELSE IF InFlightPc(proc[q].pc) /\ ~InFlightPc(rec.pc)
             THEN [proc[r] EXCEPT !.pending = @ \ {q}]
             ELSE proc[r]]

\* the activity ends with a thrown AppError
\* the activity is over: its local variables are gone
Done(rec, status) ==
    [rec EXCEPT !.pc = "done", !.status = status, !.ctx = "none",
                !.gctx = "none", !.tok = NoToken, !.cur = NoToken,
                !.nd = NoData, !.retry = 0, !.list = <<>>, !.i = 0]

\* the activity ends with a thrown AppError
Fail(rec, msg, code) ==
    Done([rec EXCEPT !.err = msg, !.code = code], "error")

-----------------------------------------------------------------------------
(* TokenRefreshService *)

\* getValidAccessToken returns accessToken to its caller
GvatReturn(rec, accessToken, active) ==
    IF rec.gctx = "mar"
    THEN [rec EXCEPT !.pc = "marHttp", !.token = accessToken,
                     !.attempts = @ + 1]
    ELSE Done([rec EXCEPT !.token = accessToken, !.retActive = active], "ok")

\* getValidAccessToken throws AppError(msg, code) inside its try block and
\* its catch block rethrows; makeAuthenticatedRequest's catch sees an error
\* without a response and throws its generic 500
GvatThrow(rec, msg, code) ==
    LET error == Rethrow(AppError(msg, code), MsgFailedGetAccessToken)
    IN IF rec.gctx = "mar"
       THEN Fail(rec, MsgRequestFailed, 500)
       ELSE Fail(rec, error.message, error.statusCode)

\* refreshAllExpiredTokens: the loop goes on with the next token, or leaves
SweepNext(rec) ==
    IF rec.i < Len(rec.list)
    THEN [rec EXCEPT !.i = @ + 1, !.key = rec.list[rec.i + 1],
                     !.ctx = "sweep", !.pc = "rauFind",
                     !.cur = NoToken, !.nd = NoData]
    ELSE [rec EXCEPT !.pc = "swCleanup", !.cur = NoToken, !.nd = NoData]

\* refreshAllExpiredTokens: the catch block marks the token inactive
SweepMarks(msg) ==
    \/ Includes(msg, <<"Invalid", "refresh", "token">>)
    \/ Includes(msg, <<"refresh", "token">>)

\* refreshAndUpdateToken returned the updated document to its caller
RauReturn(rec, doc, active) ==
    CASE rec.ctx \in {"inactive", "expiring"} ->
            GvatReturn(rec, doc.accessToken, active)
      [] rec.ctx = "mar" ->
            [rec EXCEPT !.retry = @ + 1, !.pc = "gvFind", !.ctx = "none",
                        !.cur = NoToken, !.nd = NoData]
      [] OTHER -> SweepNext(rec)

\* AppError(msg, code) is thrown inside refreshAndUpdateToken, whose catch
\* block rethrows; kind says why
RauThrow(rec0, msg0, code0, kind) ==
    LET error == Rethrow(AppError(msg0, code0), MsgFailedRefreshToken)
        msg == error.message
        code == error.statusCode
        rec == [rec0 EXCEPT !.failKind = kind, !.err = msg, !.code = code,
                            !.rejected = (@ \/ kind = "rejected")]
    IN CASE rec.ctx = "inactive" ->
              GvatThrow(rec, MsgInactiveRefreshFailed(rec.key), 401)
         [] rec.ctx = "expiring" -> [rec EXCEPT !.pc = "gvMark"]
         [] rec.ctx = "mar" -> [rec EXCEPT !.pc = "marMark"]
         [] OTHER ->
              IF SweepMarks(msg) THEN [rec EXCEPT !.pc = "swMark"]
              ELSE SweepNext(rec)

\* refreshAndUpdateToken: findActiveByStackApiKey resolves; with a token in
\* hand refreshAccessToken posts its refresh token to the token endpoint
RauFind(p) ==
    /\ proc[p].pc = "rauFind"
    /\ LET k == proc[p].key
           currentToken == findActiveByStackApiKey(k)
           graceMiss ==
               /\ proc[p].ctx = "sweep"
               /\ tokens[k].exists /\ ~tokens[k].isActive
               /\ tokens[k].expiresAt > now - GraceWindow
               /\ tokens[k].updatedAt > now - GraceWindow
               /\ ProviderAccepts(k, tokens[k].refreshToken)
       IN IF ~currentToken.exists
          THEN proc' = Commit(p, RauThrow(
                    [proc[p] EXCEPT !.missed = IF graceMiss THEN @ \cup {k} ELSE @],
                    MsgNoActiveToken(k), 404, "noActive"))
          ELSE proc' = Commit(p, [proc[p] EXCEPT !.pc = "rauPost",
                                      !.cur = currentToken,
                                      !.calledProvider = TRUE])
    /\ UNCHANGED <<now, ticks, tokens, order, provider>>
    /\ UNCHANGED <<calls, bindVars, extVars>>

\* refreshAccessToken: the token endpoint accepts the refresh token and
\* answers with a new access token, and with a new refresh token if it rotates
RefreshAccepted(p, rotate) ==
    /\ proc[p].pc = "rauPost"
    /\ LET k == proc[p].key
           n == provider[k].issued + 1
       IN /\ ProviderAccepts(k, proc[p].cur.refreshToken)
          /\ provider[k].issued < MaxIssue
          /\ provider' = [provider EXCEPT ![k].issued = n,
                                          ![k].rt = IF rotate THEN n ELSE @]
          /\ proc' = Commit(p, [proc[p] EXCEPT !.pc = "rauUpdate",
                 !.nd = [accessToken |-> n,
                         refreshToken |-> IF rotate THEN n
                                          ELSE proc[p].cur.refreshToken,
                         expiresAt |-> now + DefaultExpiresIn]])
    /\ UNCHANGED <<now, ticks, tokens, order>>
    /\ UNCHANGED <<calls, bindVars, extVars>>

\* refreshAccessToken: the token endpoint rejects the refresh token
RefreshRejected(p, httpStatus) ==
    /\ proc[p].pc = "rauPost"
    /\ ~ProviderAccepts(proc[p].key, proc[p].cur.refreshToken)
    /\ LET k == proc[p].key
           msg == CASE httpStatus = 400 -> MsgInvalidRefreshToken
                    [] httpStatus = 401 -> MsgRefreshTokenExpired
                    [] OTHER -> MsgInsufficientPermissions
           code == IF httpStatus = 403 THEN 403 ELSE 401
       IN proc' = Commit(p, RauThrow(proc[p], msg, code, "rejected"))
    /\ UNCHANGED <<now, ticks, tokens, order, provider>>
    /\ UNCHANGED <<calls, bindVars, extVars>>

\* refreshAccessToken: timeout, 5xx or a response without access_token
RefreshUnavailable(p) ==
    /\ proc[p].pc = "rauPost"
    /\ proc' = Commit(p, RauThrow(proc[p], MsgFailedRefreshAccessToken, 500,
                                  "transient"))
    /\ UNCHANGED <<now, ticks, tokens, order, provider>>
    /\ UNCHANGED <<calls, bindVars, extVars>>

\* updateTokenInDatabase: findOneAndUpdate stores the new tokens and sets
\* isActive
UpdateTokenInDatabase(p) ==
    /\ proc[p].pc = "rauUpdate"
    /\ LET k == proc[p].key
           updatedToken ==
               [tokens[k] EXCEPT !.accessToken = proc[p].nd.accessToken,
                                 !.refreshToken = proc[p].nd.refreshToken,
                                 !.expiresAt = proc[p].nd.expiresAt,
                                 !.isActive = TRUE,
                                 !.updatedAt = now]
       IN IF tokens[k].exists
          THEN /\ tokens' = [tokens EXCEPT ![k] = updatedToken]
               /\ proc' = Commit(p, RauReturn(
                      [proc[p] EXCEPT
                          !.revived = ~tokens[k].isActive,
                          !.overwroteNewer =
                              tokens[k].accessToken > proc[p].nd.accessToken],
                      updatedToken, updatedToken.expiresAt > now))
          ELSE /\ proc' = Commit(p, RauThrow(proc[p], MsgNoTokenForStack(k), 404,
                                             "noToken"))
               /\ UNCHANGED tokens
    /\ UNCHANGED <<now, ticks, order, provider>>
    /\ UNCHANGED <<calls, bindVars, extVars>>

\* updateTokenInDatabase: the credential store fails; refreshAndUpdateToken
\* wraps the error
UpdateTokenStoreError(p) ==
    /\ proc[p].pc = "rauUpdate"
    /\ proc' = Commit(p, RauThrow(proc[p], MsgFailedRefreshToken, 500, "store"))
    /\ UNCHANGED <<now, ticks, tokens, order, provider>>
    /\ UNCHANGED <<calls, bindVars, extVars>>

\* getValidAccessToken: findOne resolves
GvatFind(p) ==
    /\ proc[p].pc = "gvFind"
    /\ LET k == proc[p].key
           token == findOne(k)
           isExpiredOrExpiringSoon == token.expiresAt <= now + SafetyMargin
           rec == [proc[p] EXCEPT !.tok = token,
                                  !.peers = ConcurrentCalls(p, k),
                                  !.pending = RefreshesInFlight(p, k)]
       IN proc' = Commit(p,
            CASE ~token.exists ->
                    GvatThrow([proc[p] EXCEPT !.failKind = "noCredential"],
                              MsgNoTokenReauth(k), 404)
              [] token.exists /\ ~token.isActive ->
                    [rec EXCEPT !.ctx = "inactive", !.pc = "rauFind",
                                !.foundInactive = TRUE]
              [] token.exists /\ token.isActive /\ isExpiredOrExpiringSoon ->
                    [rec EXCEPT !.ctx = "expiring", !.pc = "rauFind",
                                !.nearExpiry = TRUE]
              [] OTHER -> [rec EXCEPT !.pc = "gvTouch"])
    /\ UNCHANGED <<now, ticks, tokens, order, provider>>
    /\ UNCHANGED <<calls, bindVars, extVars>>

\* getValidAccessToken: token.updateLastUsed() resolves and the access token
\* read by findOne is returned
GvatTouch(p) ==
    /\ proc[p].pc = "gvTouch"
    /\ LET k == proc[p].key IN
       /\ tokens' = IF tokens[k].exists
                    THEN [tokens EXCEPT ![k].updatedAt = now]
                    ELSE tokens
       /\ proc' = Commit(p, GvatReturn(proc[p], proc[p].tok.accessToken,
                    tokens[k].exists /\ tokens[k].isActive /\ tokens[k].expiresAt > now))
    /\ UNCHANGED <<now, ticks, order, provider>>
    /\ UNCHANGED <<calls, bindVars, extVars>>

\* getValidAccessToken: the refresh of an expiring token failed; the token is
\* marked inactive and AppError 401 is thrown
GvatMark(p) ==
    /\ proc[p].pc = "gvMark"
    /\ tokens' = MarkInactive(proc[p].key)
    /\ proc' = Commit(p, GvatThrow([proc[p] EXCEPT !.markKind = proc[p].failKind],
                                   MsgTokenRefreshFailed(proc[p].key), 401))
    /\ UNCHANGED <<now, ticks, order, provider>>
    /\ UNCHANGED <<calls, bindVars, extVars>>

-----------------------------------------------------------------------------
(* authenticateStack and ContentstackService.makeAuthenticatedRequest *)

\* authenticateStack: the key of the header, or the key of the first
\* OAuthToken document
AuthenticateStack(p) ==
    /\ proc[p].pc = "auth"
    /\ LET found == order
           rec == [proc[p] EXCEPT !.ambiguous =
                       (proc[p].hdr = NoKey /\ Len(found) > 1)]
       IN proc' = Commit(p,
            CASE proc[p].hdr # NoKey ->
                    [rec EXCEPT !.key = proc[p].hdr, !.pc = "gvFind"]
              [] proc[p].hdr = NoKey /\ Len(found) = 0 ->
                    Fail(rec, MsgNoStacks, 401)
              [] OTHER -> [rec EXCEPT !.key = found[1], !.pc = "gvFind"])
    /\ UNCHANGED <<now, ticks, tokens, order, provider>>
    /\ UNCHANGED <<calls, bindVars, extVars>>

\* makeAuthenticatedRequest: the content API answers 2xx
RequestSucceeds(p) ==
    /\ proc[p].pc = "marHttp"
    /\ proc[p].token > 0
    /\ proc' = Commit(p, Done(proc[p], "ok"))
    /\ UNCHANGED <<now, ticks, tokens, order, provider>>
    /\ UNCHANGED <<calls, bindVars, extVars>>

\* makeAuthenticatedRequest: the content API answers 401
RequestUnauthorized(p) ==
    /\ proc[p].pc = "marHttp"
    /\ proc' = Commit(p,
            IF proc[p].retry < MaxRetries
            THEN [proc[p] EXCEPT !.ctx = "mar", !.pc = "rauFind",
                                 !.rejectedToken = proc[p].token]
            ELSE [proc[p] EXCEPT !.ctx = "exhausted", !.pc = "marMark",
                                 !.rejectedToken = proc[p].token])
    /\ UNCHANGED <<now, ticks, tokens, order, provider>>
    /\ UNCHANGED <<calls, bindVars, extVars>>

\* makeAuthenticatedRequest: any other failure of the request (0 = no response)
RequestFails(p, httpStatus) ==
    /\ proc[p].pc = "marHttp"
    /\ proc' = Commit(p,
          CASE httpStatus = 404 ->
                  Fail(proc[p], <<"Resource", "not", "found">>, 404)
            [] httpStatus = 429 ->
                  Fail(proc[p], <<"Rate", "limit", "exceeded", "for",
                                  "Contentstack", "API">>, 429)
            [] httpStatus >= 500 ->
                  Fail(proc[p], <<"Contentstack", "API", "temporarily",
                                  "unavailable">>, 503)
            [] OTHER -> Fail(proc[p], MsgRequestFailed, 500))
    /\ UNCHANGED <<now, ticks, tokens, order, provider>>
    /\ UNCHANGED <<calls, bindVars, extVars>>

\* makeAuthenticatedRequest: the token is marked inactive, after a failed
\* refresh or after the last 401, and AppError 401 is thrown
RequestMarkInactive(p) ==
    /\ proc[p].pc = "marMark"
    /\ tokens' = MarkInactive(proc[p].key)
    /\ proc' = Commit(p,
          IF proc[p].ctx = "mar"
          THEN Fail([proc[p] EXCEPT !.markKind = proc[p].failKind],
                    MsgAuthRefreshUnsuccessful, 401)
          ELSE Fail(proc[p], MsgAuthTokenInvalid, 401))
    /\ UNCHANGED <<now, ticks, order, provider>>
    /\ UNCHANGED <<calls, bindVars, extVars>>

-----------------------------------------------------------------------------
(* TokenRefreshService.refreshAllExpiredTokens, run by BackgroundTokenRefresh *)

\* OAuthToken.deactivateExpiredTokens()
deactivateExpiredTokens ==
    [k \in TenantKeys |->
        IF tokens[k].exists /\ tokens[k].isActive /\ tokens[k].expiresAt <= now
        THEN [tokens[k] EXCEPT !.isActive = FALSE, !.updatedAt = now]
        ELSE tokens[k]]

\* the filter of the sweep's find
NeedsSweep(t) ==
    /\ t.exists
    /\ \/ (t.isActive /\ t.expiresAt <= now + SafetyMargin)
       \/ (~t.isActive /\ t.expiresAt > now - GraceWindow)

\* OAuthToken.cleanupOldTokens(): the filter of deleteMany
IsOldToken(t) == t.exists /\ ~t.isActive /\ t.updatedAt < now - RetentionWindow

SweepDeactivateExpired(p) ==
    /\ proc[p].pc = "swDeact"
    /\ tokens' = deactivateExpiredTokens
    /\ proc' = Commit(p, [proc[p] EXCEPT !.pc = "swFind"])
    /\ UNCHANGED <<now, ticks, order, provider>>
    /\ UNCHANGED <<calls, bindVars, extVars>>

\* the find resolves with tokensToRefresh and the loop starts
SweepFind(p) ==
    /\ proc[p].pc = "swFind"
    /\ LET Wanted(k) == NeedsSweep(tokens[k])
           tokensToRefresh == SelectSeq(order, Wanted)
       IN proc' = Commit(p, SweepNext([proc[p] EXCEPT !.list = tokensToRefresh,
                                                      !.i = 0]))
    /\ UNCHANGED <<now, ticks, tokens, order, provider>>
    /\ UNCHANGED <<calls, bindVars, extVars>>

\* the catch block of the loop marks the token inactive
SweepMarkInactive(p) ==
    /\ proc[p].pc = "swMark"
    /\ tokens' = MarkInactive(proc[p].key)
    /\ proc' = Commit(p, SweepNext([proc[p] EXCEPT !.markKind = proc[p].failKind]))
    /\ UNCHANGED <<now, ticks, order, provider>>
    /\ UNCHANGED <<calls, bindVars, extVars>>

\* the findOneAndUpdate of the catch block rejects: the error leaves the loop
\* and the outer catch of refreshAllExpiredTokens throws its AppError 500
SweepMarkInactiveFails(p) ==
    /\ proc[p].pc = "swMark"
    /\ LET rec == proc[p]
           rest == {rec.list[j] : j \in (rec.i + 1)..Len(rec.list)}
       IN proc' = Commit(p, Fail([rec EXCEPT !.unattempted = rest],
                                 <<"Failed", "to", "refresh", "expired", "tokens">>,
                                 500))
    /\ UNCHANGED <<now, ticks, tokens, order, provider>>
    /\ UNCHANGED <<calls, bindVars, extVars>>

\* OAuthToken.cleanupOldTokens(), then the results are returned
SweepCleanup(p) ==
    /\ proc[p].pc = "swCleanup"
    /\ LET Kept(k) == ~IsOldToken(tokens[k]) IN
       /\ tokens' = [k \in TenantKeys |->
                        IF IsOldToken(tokens[k]) THEN NoToken ELSE tokens[k]]
       /\ order' = SelectSeq(order, Kept)
    /\ proc' = Commit(p, Done(proc[p], "ok"))
    /\ UNCHANGED <<now, ticks, provider>>
    /\ UNCHANGED <<calls, bindVars, extVars>>

-----------------------------------------------------------------------------
(* TokenService (class): saveOrUpdateToken after the OAuth callback, and *)
(* deactivateToken *)

\* the OAuth callback exchanges the authorization code; saveOrUpdateToken
\* computes expiresAt
ExchangeCode(p) ==
    /\ proc[p].pc = "exchange"
    /\ LET k == proc[p].key
           n == provider[k].issued + 1
       IN /\ provider[k].issued < MaxIssue
          /\ provider' = [provider EXCEPT ![k].issued = n, ![k].rt = n]
          /\ proc' = Commit(p, [proc[p] EXCEPT !.pc = "saveFind",
                 !.nd = [accessToken |-> n, refreshToken |-> n,
                         expiresAt |-> now + DefaultExpiresIn]])
    /\ UNCHANGED <<now, ticks, tokens, order>>
    /\ UNCHANGED <<calls, bindVars, extVars>>

\* saveOrUpdateToken: findOne resolves with existingToken or null
SaveFind(p) ==
    /\ proc[p].pc = "saveFind"
    /\ proc' = Commit(p, [proc[p] EXCEPT !.tok = findOne(proc[p].key),
                                         !.pc = "saveWrite"])
    /\ UNCHANGED <<now, ticks, tokens, order, provider>>
    /\ UNCHANGED <<calls, bindVars, extVars>>

\* saveOrUpdateToken: existingToken.save() or newToken.save()
SaveWrite(p) ==
    /\ proc[p].pc = "saveWrite"
    /\ LET k == proc[p].key
           doc == [exists |-> TRUE,
                   accessToken |-> proc[p].nd.accessToken,
                   refreshToken |-> proc[p].nd.refreshToken,
                   expiresAt |-> proc[p].nd.expiresAt,
                   \* save() writes the paths whose value changed since findOne
                   isActive |-> IF proc[p].tok.exists /\ proc[p].tok.isActive
                                THEN tokens[k].isActive ELSE TRUE,
                   updatedAt |-> now]
       IN IF proc[p].tok.exists = tokens[k].exists
          THEN /\ tokens' = [tokens EXCEPT ![k] = doc]
               /\ order' = IF tokens[k].exists THEN order ELSE Append(order, k)
               /\ proc' = Commit(p, Done(proc[p], "ok"))
          ELSE \* the document was created or deleted in between: save rejects
               /\ proc' = Commit(p, Fail(proc[p], <<"save", "failed">>, 500))
               /\ UNCHANGED <<tokens, order>>
    /\ UNCHANGED <<now, ticks, provider>>
    /\ UNCHANGED <<calls, bindVars, extVars>>

\* deactivateToken: updateOne({ stackApiKey }, { isActive: false })
DeactivateToken(p) ==
    /\ proc[p].pc = "deact"
    /\ tokens' = MarkInactive(proc[p].key)
    /\ proc' = Commit(p, Done(proc[p], "ok"))
    /\ UNCHANGED <<now, ticks, order, provider>>
    /\ UNCHANGED <<calls, bindVars, extVars>>

\* the message of the class getValidAccessToken when no active token is found
MsgNoValidToken(k) == <<"No", "valid", "token", "found", "for", "stack", KeyWord(k)>>

\* TokenService.getValidAccessToken: findActiveByStackApiKey resolves. Its
\* filter expiresAt > now leaves nothing for isExpired() to find in the same
\* minute, and no branch of the method refreshes the token
ClassGvatFind(p) ==
    /\ proc[p].pc = "cgFind"
    /\ LET k == proc[p].key
           t == findActiveByStackApiKey(k)
       IN IF ~t.exists
          THEN LET error == Rethrow(AppError(MsgNoValidToken(k), 401),
                                    MsgFailedGetAccessToken)
               IN proc' = Commit(p, Fail(proc[p], error.message, error.statusCode))
          ELSE proc' = Commit(p, [proc[p] EXCEPT !.tok = t, !.pc = "cgTouch",
                   !.nearExpiry = (t.expiresAt <= now + SafetyMargin)])
    /\ UNCHANGED <<now, ticks, tokens, order, provider>>
    /\ UNCHANGED <<calls, bindVars, extVars>>

\* TokenService.getValidAccessToken: token.updateLastUsed() saves the
\* document, and the document is returned
ClassGvatTouch(p) ==
    /\ proc[p].pc = "cgTouch"
    /\ LET k == proc[p].key
       IN /\ tokens' = [tokens EXCEPT ![k].updatedAt = now]
          /\ proc' = Commit(p, Done([proc[p] EXCEPT
                   !.token = proc[p].tok.accessToken,
                   !.retActive = (proc[p].tok.isActive /\ proc[p].tok.expiresAt > now)],
                 "ok"))
    /\ UNCHANGED <<now, ticks, order, provider>>
    /\ UNCHANGED <<calls, bindVars, extVars>>

-----------------------------------------------------------------------------
(* tokenService (functions): getValidAccessToken and refreshAccessToken *)

\* the most requests of one makeAuthenticatedRequest call that the model follows
MaxAttempts == 5

\* getValidAccessToken of tokenService.js returns accessToken: to its caller,
\* or to makeAuthenticatedRequest of contentstackService.js, which sends the
\* request with it
TsReturn(rec, accessToken, active) ==
    IF rec.gctx = "tsMar"
    THEN [rec EXCEPT !.pc = "tsMarHttp", !.token = accessToken,
                     !.attempts = @ + 1, !.ctx = "none", !.tok = NoToken,
                     !.cur = NoToken, !.nd = NoData]
    ELSE Done([rec EXCEPT !.token = accessToken, !.retActive = active], "ok")

\* getValidAccessToken of tokenService.js throws: the catch block of
\* makeAuthenticatedRequest sees an error without a response and throws its
\* generic 500
TsThrow(rec, msg, code) ==
    IF rec.gctx = "tsMar"
    THEN Fail(rec, MsgRequestFailed, 500)
    ELSE Fail(rec, msg, code)

\* makeAuthenticatedRequest of contentstackService.js retries whatever the
\* count of its attempts
TsRetryAlways(retryCount) == TRUE

\* makeAuthenticatedRequest of contentstackService.js: after retryCount++,
\* `retryCount <= maxRetries`
TsRetryAllowed(retryCount) == retryCount <= MaxRetries

\* makeAuthenticatedRequest of contentstackService.js: the content API
\* answers 2xx and response.data is returned
TsRequestSucceeds(p) ==
    /\ proc[p].pc = "tsMarHttp"
    /\ proc' = Commit(p, Done(proc[p], "ok"))
    /\ UNCHANGED <<now, ticks, tokens, order, provider>>
    /\ UNCHANGED <<calls, bindVars, extVars>>

\* the content API answers 401: retryCount++, and the token is to be marked
\* inactive, before the next attempt or before the AppError 401
TsRequestUnauthorized(p) ==
    /\ proc[p].pc = "tsMarHttp"
    /\ proc[p].attempts < MaxAttempts
    /\ proc' = Commit(p,
          [proc[p] EXCEPT !.retry = @ + 1,
                          !.rejectedToken = proc[p].token,
                          !.ctx = IF TsRetryAllowed(proc[p].retry + 1)
                                  THEN "retry" ELSE "exhausted",
                          !.pc = "tsMarMark"])
    /\ UNCHANGED <<now, ticks, tokens, order, provider>>
    /\ UNCHANGED <<calls, bindVars, extVars>>

\* OAuthToken.updateOne({stackApiKey}, {isActive: false}) resolves; the loop
\* continues with getValidAccessToken, or AppError 401 is thrown
TsRequestMarkInactive(p) ==
    /\ proc[p].pc = "tsMarMark"
    /\ tokens' = MarkInactive(proc[p].key)
    /\ proc' = Commit(p,
          IF proc[p].ctx = "retry"
          THEN [proc[p] EXCEPT !.pc = "tsFind", !.ctx = "none"]
          ELSE Fail(proc[p], MsgAuthTokenInvalid, 401))
    /\ UNCHANGED <<now, ticks, order, provider>>
    /\ UNCHANGED <<calls, bindVars, extVars>>

\* any other failure of the request (0 = no response)
TsRequestFails(p, httpStatus) ==
    /\ proc[p].pc = "tsMarHttp"
    /\ proc' = Commit(p,
          CASE httpStatus = 404 ->
                  Fail(proc[p], <<"Resource", "not", "found">>, 404)
            [] httpStatus = 429 ->
                  Fail(proc[p], <<"Rate", "limit", "exceeded", "for",
                                  "Contentstack", "API">>, 429)
            [] httpStatus >= 500 ->
                  Fail(proc[p], <<"Contentstack", "API", "temporarily",
                                  "unavailable">>, 503)
            [] OTHER -> Fail(proc[p], MsgRequestFailed, 500))
    /\ UNCHANGED <<now, ticks, tokens, order, provider>>
    /\ UNCHANGED <<calls, bindVars, extVars>>

\* getValidAccessToken: findOne resolves
TsFind(p) ==
    /\ proc[p].pc = "tsFind"
    /\ LET k == proc[p].key
           token == findOne(k)
           needsRefresh == token.expiresAt <= now + SafetyMargin
           rec == [proc[p] EXCEPT !.tok = token,
                                  !.peers = ConcurrentCalls(p, k),
                                  !.pending = RefreshesInFlight(p, k)]
       IN proc' = Commit(p,
            CASE ~token.exists ->
                    TsThrow(proc[p], <<"No", "token", "found", "for", "stack.",
                                       "Please", "authenticate", "first.">>, 404)
              [] token.exists /\ needsRefresh ->
                    [rec EXCEPT !.ctx = "expiring", !.pc = "tsFind2",
                                !.nearExpiry = TRUE]
              [] OTHER -> [rec EXCEPT !.pc = "tsTouch"])
    /\ UNCHANGED <<now, ticks, tokens, order, provider>>
    /\ UNCHANGED <<calls, bindVars, extVars>>

\* getValidAccessToken: token.save() resolves, token.accessToken is returned
TsTouch(p) ==
    /\ proc[p].pc = "tsTouch"
    /\ LET k == proc[p].key IN
       /\ tokens' = IF tokens[k].exists
                    THEN [tokens EXCEPT ![k].updatedAt = now]
                    ELSE tokens
       /\ proc' = Commit(p, TsReturn(proc[p], proc[p].tok.accessToken,
                                     tokens[k].exists /\ tokens[k].isActive
                                     /\ tokens[k].expiresAt > now))
    /\ UNCHANGED <<now, ticks, order, provider>>
    /\ UNCHANGED <<calls, bindVars, extVars>>

\* refreshAccessToken: findOne resolves; the refresh token is posted
TsRefreshFind(p) ==
    /\ proc[p].pc = "tsFind2"
    /\ LET k == proc[p].key
           token == findOne(k)
       IN proc' = Commit(p,
            IF ~token.exists
            THEN TsThrow([proc[p] EXCEPT !.failKind = "noToken"],
                         MsgFailedRefreshAccessToken, 500)
            ELSE [proc[p] EXCEPT !.cur = token, !.pc = "tsPost",
                                 !.calledProvider = TRUE])
    /\ UNCHANGED <<now, ticks, tokens, order, provider>>
    /\ UNCHANGED <<calls, bindVars, extVars>>

\* refreshAccessToken: the token endpoint answers with new tokens
TsRefreshAccepted(p, rotate) ==
    /\ proc[p].pc = "tsPost"
    /\ LET k == proc[p].key
           n == provider[k].issued + 1
       IN /\ ProviderAccepts(k, proc[p].cur.refreshToken)
          /\ provider[k].issued < MaxIssue
          /\ provider' = [provider EXCEPT ![k].issued = n,
                                          ![k].rt = IF rotate THEN n ELSE @]
          /\ proc' = Commit(p, [proc[p] EXCEPT !.pc = "tsSave",
                 !.nd = [accessToken |-> n,
                         refreshToken |-> IF rotate THEN n
                                          ELSE proc[p].cur.refreshToken,
                         expiresAt |-> now + DefaultExpiresIn]])
    /\ UNCHANGED <<now, ticks, tokens, order>>
    /\ UNCHANGED <<calls, bindVars, extVars>>

\* refreshAccessToken: the token endpoint rejects the refresh token; the
\* catch block throws 401 for 400 and 401, and 500 otherwise
TsRefreshRejected(p, httpStatus) ==
    /\ proc[p].pc = "tsPost"
    /\ ~ProviderAccepts(proc[p].key, proc[p].cur.refreshToken)
    /\ LET k == proc[p].key
           rec == [proc[p] EXCEPT !.failKind = "rejected", !.rejected = TRUE]
       IN proc' = Commit(p,
            IF httpStatus \in {400, 401}
            THEN TsThrow(rec, MsgRefreshTokenExpired, 401)
            ELSE TsThrow(rec, MsgFailedRefreshAccessToken, 500))
    /\ UNCHANGED <<now, ticks, tokens, order, provider>>
    /\ UNCHANGED <<calls, bindVars, extVars>>

\* refreshAccessToken: timeout, 5xx or a response without access_token
TsRefreshUnavailable(p) ==
    /\ proc[p].pc = "tsPost"
    /\ proc' = Commit(p, TsThrow([proc[p] EXCEPT !.failKind = "transient"],
                                 MsgFailedRefreshAccessToken, 500))
    /\ UNCHANGED <<now, ticks, tokens, order, provider>>
    /\ UNCHANGED <<calls, bindVars, extVars>>

\* refreshAccessToken: token.save() stores the new tokens (isActive is not
\* among the written fields) and the new access token is returned
TsSave(p) ==
    /\ proc[p].pc = "tsSave"
    /\ LET k == proc[p].key IN
       IF tokens[k].exists
       THEN /\ tokens' = [tokens EXCEPT
                    ![k].accessToken = proc[p].nd.accessToken,
                    ![k].refreshToken = proc[p].nd.refreshToken,
                    ![k].expiresAt = proc[p].nd.expiresAt,
                    ![k].updatedAt = now]
            /\ proc' = Commit(p, TsReturn(
                    [proc[p] EXCEPT !.overwroteNewer =
                        tokens[k].accessToken > proc[p].nd.accessToken],
                    proc[p].nd.accessToken,
                    tokens[k].isActive /\ proc[p].nd.expiresAt > now))
       ELSE /\ proc' = Commit(p, TsThrow([proc[p] EXCEPT !.failKind = "store"],
                                         MsgFailedRefreshAccessToken, 500))
            /\ UNCHANGED tokens
    /\ UNCHANGED <<now, ticks, order, provider>>
    /\ UNCHANGED <<calls, bindVars, extVars>>

-----------------------------------------------------------------------------
(* Environment of the credential side *)

CallerOps == {"getValidAccessToken", "saveOrUpdateToken", "deactivateToken"}

TsCallerOps == {"tsGetValidAccessToken", "saveOrUpdateToken", "deactivateToken"}

ClassCallerOps ==
    {"classGetValidAccessToken", "saveOrUpdateToken", "deactivateToken"}

FirstPc(op) ==
    CASE op = "getValidAccessToken" -> "gvFind"
      [] op = "makeAuthenticatedRequest" -> "auth"
      [] op = "saveOrUpdateToken" -> "exchange"
      [] op = "deactivateToken" -> "deact"
      [] op = "classGetValidAccessToken" -> "cgFind"
      [] OTHER -> "tsFind"

\* a request or a call arrives; hdr is the stack key it carries
StartCall(p, op, hdr) ==
    /\ proc[p].pc \in {"idle", "done"}
    /\ calls < MaxCalls
    /\ calls' = calls + 1
    /\ proc' = [q \in Procs |->
          IF q = p
          THEN [IdleProc EXCEPT !.op = op, !.hdr = hdr,
                   !.key = IF op = "makeAuthenticatedRequest" THEN NoKey ELSE hdr,
                   !.gctx = CASE op = "makeAuthenticatedRequest" -> "mar"
                              [] op = "tsMakeAuthenticatedRequest" -> "tsMar"
                              [] OTHER -> "top",
                   !.pc = FirstPc(op)]
          \* a call that is over was not concurrent with the one that starts
          ELSE IF proc[q].pc = "done" THEN [proc[q] EXCEPT !.peers = @ \ {p}]
          ELSE proc[q]]
    /\ UNCHANGED <<now, ticks, tokens, order, provider>>
    /\ UNCHANGED <<bindVars, extVars>>

\* BackgroundTokenRefresh: the interval fires
StartSweep ==
    /\ proc[Sweeper].pc \in {"idle", "done"}
    /\ calls < MaxCalls
    /\ calls' = calls + 1
    /\ proc' = [proc EXCEPT ![Sweeper] =
          [IdleProc EXCEPT !.op = "refreshAllExpiredTokens", !.pc = "swDeact"]]
    /\ UNCHANGED <<now, ticks, tokens, order, provider>>
    /\ UNCHANGED <<bindVars, extVars>>

\* time passes between the activities: an await of an activity (a database
\* call, an HTTP call with its 30 s timeout) ends within the minute in which
\* it began
Tick(d) ==
    /\ ticks < MaxTicks
    /\ \A p \in Procs : proc[p].pc \in {"idle", "done"}
    /\ ticks' = ticks + 1
    /\ now' = now + d
    /\ UNCHANGED <<tokens, order, provider, proc, calls>>
    /\ UNCHANGED <<bindVars, extVars>>

\* the provider stops accepting the refresh token of stack k
RevokeRefreshToken(k) ==
    /\ provider[k].rt # 0
    /\ provider' = [provider EXCEPT ![k].rt = 0]
    /\ UNCHANGED <<now, ticks, tokens, order, proc, calls>>
    /\ UNCHANGED <<bindVars, extVars>>

InitCred ==
    /\ now = 0
    /\ ticks = 0
    /\ calls = 0
    /\ tokens = [k \in TenantKeys |-> NoToken]
    /\ order = <<>>
    /\ provider = [k \in TenantKeys |-> [issued |-> 0, rt |-> 0]]
    /\ proc = [p \in Procs |-> IdleProc]

-----------------------------------------------------------------------------

InitBind ==
    /\ index = NoIndex
    /\ currentIndexName = NoIndex
    /\ isInitialized = FALSE
    /\ store = [ix \in IndexNames |-> [i \in EntryIds |-> Absent]]
    /\ req = [r \in Reqs |-> IdleReq]

\* the indexes of the stacks are there and nothing is being created
InitExt ==
    /\ naming = IdleNaming
    /\ indexes = [ix \in IndexNames |-> "ready"]
    /\ job = [j \in Jobs |-> IdleJob]
    /\ run = IdleRun
    /\ vectors = [ix \in IndexNames |-> {}]
    /\ srch = IdleSearch
    /\ hook = [r \in Reqs |-> IdleHook]

Init == InitBind /\ InitCred /\ InitExt

\* two keys of the corpus are handed to generateIndexName
InitNaming ==
    /\ InitBind
    /\ InitCred
    /\ naming \in [first : NamedKeys, second : NamedKeys,
                   nameFirst : {NoName}, nameSecond : {NoName}]
    /\ indexes = [ix \in IndexNames |-> "ready"]
    /\ job = [j \in Jobs |-> IdleJob]
    /\ run = IdleRun
    /\ vectors = [ix \in IndexNames |-> {}]
    /\ srch = IdleSearch
    /\ hook = [r \in Reqs |-> IdleHook]

NextNaming == NameFirst \/ NameSecond

SpecNaming == InitNaming /\ [][NextNaming]_vars

\* webhook events for the entries of the stacks
NextHooks ==
    \/ \E r \in Reqs, receiver \in Receivers, event \in Events,
          key \in TenantKeys, id \in EntryIds :
          ReceiveWebhook(r, receiver, event, key, id)
    \/ \E r \in Reqs : WebhookWorkStarts(r)
    \/ \E r \in Reqs : SetStackIndex(r)
    \/ \E r \in Reqs : DescribeIndexStatsOk(r)
    \/ \E r \in Reqs : DescribeIndexStatsFail(r)
    \/ \E r \in Reqs : IndexEntry(r)
    \/ \E r \in Reqs : WebhookWorkEnds(r)

SpecHooks == Init /\ [][NextHooks]_vars

NextBind ==
    \/ \E r \in Reqs, kind \in ReqKinds, key \in TenantKeys, id \in EntryIds :
          StartRequest(r, kind, key, id)
    \/ \E r \in Reqs : SetStackIndex(r)
    \/ \E r \in Reqs : DescribeIndexStatsOk(r)
    \/ \E r \in Reqs : DescribeIndexStatsFail(r)
    \/ \E r \in Reqs : IndexEntry(r)
    \/ \E r \in Reqs : Finish(r)

SpecBind == Init /\ [][NextBind]_vars

\* updates of entries next to the indexing of other entries
NextUpdate ==
    \/ \E r \in Reqs, key \in TenantKeys, id \in EntryIds :
          StartRequest(r, "indexEntry", key, id)
    \/ \E r \in Reqs, key \in TenantKeys, id \in EntryIds :
          StartUpdateEntry(r, key, id)
    \/ \E r \in Reqs : SetStackIndex(r)
    \/ \E r \in Reqs : DescribeIndexStatsOk(r)
    \/ \E r \in Reqs : DescribeIndexStatsFail(r)
    \/ \E r \in Reqs : IndexEntry(r)
    \/ \E r \in Reqs : UpdateEntryFetched(r)
    \/ \E r \in Reqs : UpdateEntryGone(r)
    \/ \E r \in Reqs : UpdateEntryEmbedded(r)
    \/ \E r \in Reqs : UpdateEntryEmbeddingFails(r)
    \/ \E r \in Reqs : Finish(r)

SpecUpdate == Init /\ [][NextUpdate]_vars

\* no index has been created yet
InitLazy ==
    /\ InitBind
    /\ InitCred
    /\ naming = IdleNaming
    /\ indexes = [ix \in IndexNames |-> "absent"]
    /\ job = [j \in Jobs |-> IdleJob]
    /\ run = IdleRun
    /\ vectors = [ix \in IndexNames |-> {}]
    /\ srch = IdleSearch
    /\ hook = [r \in Reqs |-> IdleHook]

\* the job that stands for the OAuth callback
Callback == 1

\* the request slot of the attempts
Attempt == 1

\* indexing and search attempts, one after the other, next to the index
\* creation of the OAuth callback
NextLazy ==
    \/ \E kind \in {"indexEntry", "semanticSearch"},
          key \in TenantKeys, id \in EntryIds : StartRequest(Attempt, kind, key, id)
    \/ SetStackIndex(Attempt)
    \/ DescribeIndexStatsOk(Attempt)
    \/ DescribeIndexStatsFail(Attempt)
    \/ IndexEntry(Attempt)
    \/ Finish(Attempt)
    \/ \E key \in TenantKeys : StartCreateStackIndex(Callback, key)
    \/ IndexExists(Callback)
    \/ IndexExistsFails(Callback)
    \/ CreateIndex(Callback)
    \/ CreateIndexFails(Callback)
    \/ PollListIndexes(Callback)
    \/ PollListFails(Callback)
    \/ PollSleep(Callback)
    \/ \E ix \in IndexNames : IndexBecomesReady(ix)

SpecLazy == InitLazy /\ [][NextLazy]_vars

\* createStackIndex calls, also concurrent ones
NextIndex ==
    \/ \E j \in Jobs, key \in TenantKeys : StartCreateStackIndex(j, key)
    \/ \E j \in Jobs : IndexExists(j)
    \/ \E j \in Jobs : IndexExistsFails(j)
    \/ \E j \in Jobs : CreateIndex(j)
    \/ \E j \in Jobs : CreateIndexFails(j)
    \/ \E j \in Jobs : PollListIndexes(j)
    \/ \E j \in Jobs : PollListFails(j)
    \/ \E j \in Jobs : PollSleep(j)
    \/ \E ix \in IndexNames : IndexBecomesReady(ix)

\* a call to Pinecone resolves or rejects, and a timer fires
FairIndex ==
    \A j \in Jobs :
        /\ WF_vars(IndexExists(j) \/ IndexExistsFails(j))
        /\ WF_vars(CreateIndex(j) \/ CreateIndexFails(j))
        /\ WF_vars(PollListIndexes(j) \/ PollListFails(j))
        /\ WF_vars(PollSleep(j))

SpecIndex == InitLazy /\ [][NextIndex]_vars /\ FairIndex

\* how fetchAllEntries groups a list of entries: one content type with all
\* of them, or no content type at all when it has none
Groupings(l) == {<<Len(l)>>} \cup (IF Len(l) = 0 THEN {<<>>} ELSE {})

\* indexAllEntries is called for a stack whose CMS holds a list of entries
InitIndexing ==
    /\ InitBind
    /\ InitCred
    /\ naming = IdleNaming
    /\ indexes = [ix \in IndexNames |-> "ready"]
    /\ job = [j \in Jobs |-> IdleJob]
    /\ run \in UNION {{[IdleRun EXCEPT !.entries = l, !.groups = gs] :
                           gs \in Groupings(l)} : l \in EntryLists}
    /\ vectors = [ix \in IndexNames |-> {}]
    /\ srch = IdleSearch
    /\ hook = [r \in Reqs |-> IdleHook]

NextIndexing ==
    \/ IndexAllFetched
    \/ IndexAllFetchFails
    \/ EntrySetStackIndex
    \/ RunDescribeIndexStatsOk
    \/ RunDescribeIndexStatsFail
    \/ EntryEmbedded
    \/ EntryEmbeddingFails
    \/ EntryUpserted
    \/ EntryUpsertFails
    \/ \E got \in 0..MaxImages : ImagesEmbedded(got)
    \/ ImageUpserted
    \/ ImageUpsertFails

SpecIndexing == InitIndexing /\ [][NextIndexing]_vars

\* content type groups that fill more than one batch, or one batch with
\* more entries than a batch has groups
BatchLayouts ==
    {<<BatchSize + 1>>,
     [n \in 1..(BatchSize + 1) |-> 0],
     [n \in 1..(BatchSize + 1) |-> 1],
     [n \in 1..MaxGroups |-> 1]}

\* indexAllEntries is called for a stack with many entries or content types
InitBatches ==
    /\ InitBind
    /\ InitCred
    /\ naming = IdleNaming
    /\ indexes = [ix \in IndexNames |-> "ready"]
    /\ job = [j \in Jobs |-> IdleJob]
    /\ run \in {[IdleRun EXCEPT
                     !.groups = gs,
                     !.entries = [n \in 1..SumTo(gs, Len(gs)) |->
                                     [uid |-> "e1", text |-> "t1", images |-> 0]]] :
                 gs \in BatchLayouts}
    /\ vectors = [ix \in IndexNames |-> {}]
    /\ srch = IdleSearch
    /\ hook = [r \in Reqs |-> IdleHook]

\* a run whose provider calls all succeed
NextBatches ==
    \/ IndexAllFetched
    \/ BatchPaused
    \/ EntrySetStackIndex
    \/ RunDescribeIndexStatsOk
    \/ EntryEmbedded
    \/ EntryUpserted

SpecBatches == InitBatches /\ [][NextBatches]_vars

NextSearch ==
    \/ \E handler \in Handlers, reranker \in Rerankers, topK \in TopKs,
          useReranking \in BOOLEAN, query \in {"", "q"}, stored \in 0..MaxStored :
          StartSearch(handler, reranker, topK, useReranking, query, stored)
    \/ QueryEmbedded
    \/ QueryEmbeddingFails
    \/ SearchBound
    \/ SearchBindFails
    \/ VectorQueried
    \/ VectorQueryFails
    \/ \E outcome \in {"ok"} \cup RerankFailures : Reranked(outcome)
    \/ \E outcome \in EnrichOutcomes : CandidateEnriched(outcome)
    \/ \E saved \in BOOLEAN : SearchLogged(saved)

SpecSearch == Init /\ [][NextSearch]_vars

\* the versions of one entry that the CMS holds one after the other
ReindexLists ==
    UNION {[1..n -> {e \in CmsEntries : e.uid = "e1"}] : n \in 1..2}

InitReindex ==
    /\ InitBind
    /\ InitCred
    /\ naming = IdleNaming
    /\ indexes = [ix \in IndexNames |-> "ready"]
    /\ job = [j \in Jobs |-> IdleJob]
    /\ run \in {[IdleRun EXCEPT !.entries = l, !.groups = <<Len(l)>>] :
                   l \in ReindexLists}
    /\ vectors = [ix \in IndexNames |-> {}]
    /\ srch = IdleSearch
    /\ hook = [r \in Reqs |-> IdleHook]

\* indexAllEntries for one stack next to the searches of the stacks
NextReindex ==
    \/ IndexAllFetched
    \/ IndexAllFetchFails
    \/ EntrySetStackIndex
    \/ RunDescribeIndexStatsOk
    \/ RunDescribeIndexStatsFail
    \/ EntryEmbedded
    \/ EntryEmbeddingFails
    \/ EntryUpserted
    \/ EntryUpsertFails
    \/ \E got \in 0..MaxImages : ImagesEmbedded(got)
    \/ ImageUpserted
    \/ ImageUpsertFails
    \/ \E key \in TenantKeys, id \in EntryIds :
          StartRequest(Attempt, "semanticSearch", key, id)
    \/ SetStackIndex(Attempt)
    \/ DescribeIndexStatsOk(Attempt)
    \/ DescribeIndexStatsFail(Attempt)
    \/ Finish(Attempt)

SpecReindex == InitReindex /\ [][NextReindex]_vars

NextMar ==
    \/ \E p \in Callers, op \in CallerOps, hdr \in TenantKeys : StartCall(p, op, hdr)
    \/ \E p \in Requesters, hdr \in TenantKeys \cup {NoKey} :
          StartCall(p, "makeAuthenticatedRequest", hdr)
    \/ \E d \in TickSteps : Tick(d)
    \/ \E k \in TenantKeys : RevokeRefreshToken(k)
    \/ \E p \in Procs : RauFind(p)
    \/ \E p \in Procs, rotate \in BOOLEAN : RefreshAccepted(p, rotate)
    \/ \E p \in Procs, httpStatus \in {400, 401, 403} : RefreshRejected(p, httpStatus)
    \/ \E p \in Procs : RefreshUnavailable(p)
    \/ \E p \in Procs : UpdateTokenInDatabase(p)
    \/ \E p \in Procs : UpdateTokenStoreError(p)
    \/ \E p \in Callers : GvatFind(p)
    \/ \E p \in Callers : GvatTouch(p)
    \/ \E p \in Callers : GvatMark(p)
    \/ \E p \in Callers : AuthenticateStack(p)
    \/ \E p \in Callers : RequestSucceeds(p)
    \/ \E p \in Callers : RequestUnauthorized(p)
    \/ \E p \in Callers, httpStatus \in {0, 404, 429, 500} : RequestFails(p, httpStatus)
    \/ \E p \in Callers : RequestMarkInactive(p)
    \/ \E p \in Callers : ExchangeCode(p)
    \/ \E p \in Callers : SaveFind(p)
    \/ \E p \in Callers : SaveWrite(p)
    \/ \E p \in Callers : DeactivateToken(p)

SpecMar == Init /\ [][NextMar]_vars

\* the background sweep over the tokens that the OAuth callbacks stored
NextSweep ==
    \/ \E p \in Callers, hdr \in TenantKeys : StartCall(p, "saveOrUpdateToken", hdr)
    \/ StartSweep
    \/ \E d \in TickSteps : Tick(d)
    \/ \E k \in TenantKeys : RevokeRefreshToken(k)
    \/ RauFind(Sweeper)
    \/ \E rotate \in BOOLEAN : RefreshAccepted(Sweeper, rotate)
    \/ \E httpStatus \in {400, 401, 403} : RefreshRejected(Sweeper, httpStatus)
    \/ RefreshUnavailable(Sweeper)
    \/ UpdateTokenInDatabase(Sweeper)
    \/ UpdateTokenStoreError(Sweeper)
    \/ SweepDeactivateExpired(Sweeper)
    \/ SweepFind(Sweeper)
    \/ SweepMarkInactive(Sweeper)
    \/ SweepMarkInactiveFails(Sweeper)
    \/ SweepCleanup(Sweeper)
    \/ \E p \in Callers : ExchangeCode(p)
    \/ \E p \in Callers : SaveFind(p)
    \/ \E p \in Callers : SaveWrite(p)

SpecSweep == Init /\ [][NextSweep]_vars

\* getValidAccessToken calls for stacks that were authorized once
NextRefresh ==
    \/ \E p \in Callers, hdr \in TenantKeys :
          /\ ~tokens[hdr].exists
          /\ \A q \in Callers : proc[q].op = "saveOrUpdateToken" => proc[q].pc = "done"
          /\ StartCall(p, "saveOrUpdateToken", hdr)
    \/ \E p \in Callers, hdr \in TenantKeys : StartCall(p, "getValidAccessToken", hdr)
    \/ \E d \in TickSteps : Tick(d)
    \/ \E p \in Callers : RauFind(p)
    \/ \E p \in Callers, rotate \in BOOLEAN : RefreshAccepted(p, rotate)
    \/ \E p \in Callers, httpStatus \in {400, 401, 403} : RefreshRejected(p, httpStatus)
    \/ \E p \in Callers : RefreshUnavailable(p)
    \/ \E p \in Callers : UpdateTokenInDatabase(p)
    \/ \E p \in Callers : UpdateTokenStoreError(p)
    \/ \E p \in Callers : GvatFind(p)
    \/ \E p \in Callers : GvatTouch(p)
    \/ \E p \in Callers : GvatMark(p)
    \/ \E p \in Callers : ExchangeCode(p)
    \/ \E p \in Callers : SaveFind(p)
    \/ \E p \in Callers : SaveWrite(p)

SpecRefresh == Init /\ [][NextRefresh]_vars

\* the two request operations: makeAuthenticatedRequest of the class service
\* and of contentstackService.js
RequestOps == {"makeAuthenticatedRequest", "tsMakeAuthenticatedRequest"}

\* one step of the request that p runs, whatever its outcome
RetryStep(p) ==
    \/ AuthenticateStack(p)
    \/ GvatFind(p) \/ GvatTouch(p) \/ GvatMark(p)
    \/ RauFind(p)
    \/ \E rotate \in BOOLEAN : RefreshAccepted(p, rotate)
    \/ \E httpStatus \in {400, 401, 403} : RefreshRejected(p, httpStatus)
    \/ RefreshUnavailable(p)
    \/ UpdateTokenInDatabase(p) \/ UpdateTokenStoreError(p)
    \/ RequestSucceeds(p) \/ RequestUnauthorized(p) \/ RequestMarkInactive(p)
    \/ \E httpStatus \in {0, 404, 429, 500} : RequestFails(p, httpStatus)
    \/ TsFind(p) \/ TsTouch(p) \/ TsRefreshFind(p)
    \/ \E rotate \in BOOLEAN : TsRefreshAccepted(p, rotate)
    \/ \E httpStatus \in {400, 401, 403} : TsRefreshRejected(p, httpStatus)
    \/ TsRefreshUnavailable(p)
    \/ TsSave(p)
    \/ TsRequestSucceeds(p) \/ TsRequestUnauthorized(p)
    \/ TsRequestMarkInactive(p)
    \/ \E httpStatus \in {0, 404, 429, 500} : TsRequestFails(p, httpStatus)

\* the stacks whose app was installed; requests for the other stacks find no
\* credential
AuthorizedKeys == {KeyA}

\* authenticated requests to the content API, of both services, against the
\* tokens that the OAuth callbacks stored
NextRetry ==
    \/ \E p \in Callers, hdr \in AuthorizedKeys :
          /\ ~tokens[hdr].exists
          /\ \A q \in Callers : proc[q].op = "saveOrUpdateToken" => proc[q].pc = "done"
          /\ StartCall(p, "saveOrUpdateToken", hdr)
    \/ \E p \in Requesters, hdr \in TenantKeys :
          StartCall(p, "makeAuthenticatedRequest", hdr)
    \/ \E p \in Requesters, hdr \in TenantKeys :
          StartCall(p, "tsMakeAuthenticatedRequest", hdr)
    \/ \E d \in TickSteps : Tick(d)
    \/ \E k \in AuthorizedKeys : RevokeRefreshToken(k)
    \/ \E p \in Callers : ExchangeCode(p)
    \/ \E p \in Callers : SaveFind(p)
    \/ \E p \in Callers : SaveWrite(p)
    \/ \E p \in Requesters : AuthenticateStack(p)
    \/ \E p \in Requesters : GvatFind(p)
    \/ \E p \in Requesters : GvatTouch(p)
    \/ \E p \in Requesters : GvatMark(p)
    \/ \E p \in Requesters : RauFind(p)
    \/ \E p \in Requesters, rotate \in BOOLEAN : RefreshAccepted(p, rotate)
    \/ \E p \in Requesters, httpStatus \in {400, 401, 403} : RefreshRejected(p, httpStatus)
    \/ \E p \in Requesters : RefreshUnavailable(p)
    \/ \E p \in Requesters : UpdateTokenInDatabase(p)
    \/ \E p \in Requesters : UpdateTokenStoreError(p)
    \/ \E p \in Requesters : RequestSucceeds(p)
    \/ \E p \in Requesters : RequestUnauthorized(p)
    \/ \E p \in Requesters : RequestMarkInactive(p)
    \/ \E p \in Requesters, httpStatus \in {0, 404, 429, 500} : RequestFails(p, httpStatus)
    \/ \E p \in Requesters : TsFind(p)
    \/ \E p \in Requesters : TsTouch(p)
    \/ \E p \in Requesters : TsRefreshFind(p)
    \/ \E p \in Requesters, rotate \in BOOLEAN : TsRefreshAccepted(p, rotate)
    \/ \E p \in Requesters, httpStatus \in {400, 401, 403} : TsRefreshRejected(p, httpStatus)
    \/ \E p \in Requesters : TsRefreshUnavailable(p)
    \/ \E p \in Requesters : TsSave(p)
    \/ \E p \in Requesters : TsRequestSucceeds(p)
    \/ \E p \in Requesters : TsRequestUnauthorized(p)
    \/ \E p \in Requesters : TsRequestMarkInactive(p)
    \/ \E p \in Requesters, httpStatus \in {0, 404, 429, 500} : TsRequestFails(p, httpStatus)

\* every await of a request settles: the store, the token endpoint and the
\* content API answer or time out
SpecRetry ==
    /\ Init
    /\ [][NextRetry]_vars
    /\ \A p \in Requesters : WF_vars(RetryStep(p))

NextCred ==
    \/ \E p \in Callers, op \in CallerOps, hdr \in TenantKeys : StartCall(p, op, hdr)
    \/ StartSweep
    \/ \E d \in TickSteps : Tick(d)
    \/ \E k \in TenantKeys : RevokeRefreshToken(k)
    \/ \E p \in Procs : RauFind(p)
    \/ \E p \in Procs, rotate \in BOOLEAN : RefreshAccepted(p, rotate)
    \/ \E p \in Procs, httpStatus \in {400, 401, 403} : RefreshRejected(p, httpStatus)
    \/ \E p \in Procs : RefreshUnavailable(p)
    \/ \E p \in Procs : UpdateTokenInDatabase(p)
    \/ \E p \in Procs : UpdateTokenStoreError(p)
    \/ \E p \in Callers : GvatFind(p)
    \/ \E p \in Callers : GvatTouch(p)
    \/ \E p \in Callers : GvatMark(p)
    \/ SweepDeactivateExpired(Sweeper)
    \/ SweepFind(Sweeper)
    \/ SweepMarkInactive(Sweeper)
    \/ SweepCleanup(Sweeper)
    \/ \E p \in Callers : ExchangeCode(p)
    \/ \E p \in Callers : SaveFind(p)
    \/ \E p \in Callers : SaveWrite(p)
    \/ \E p \in Callers : DeactivateToken(p)

SpecCred == Init /\ [][NextCred]_vars

NextTs ==
    \/ \E p \in Callers, op \in TsCallerOps, hdr \in TenantKeys : StartCall(p, op, hdr)
    \/ \E d \in TickSteps : Tick(d)
    \/ \E k \in TenantKeys : RevokeRefreshToken(k)
    \/ \E p \in Callers : ExchangeCode(p)
    \/ \E p \in Callers : SaveFind(p)
    \/ \E p \in Callers : SaveWrite(p)
    \/ \E p \in Callers : DeactivateToken(p)
    \/ \E p \in Callers : TsFind(p)
    \/ \E p \in Callers : TsTouch(p)
    \/ \E p \in Callers : TsRefreshFind(p)
    \/ \E p \in Callers, rotate \in BOOLEAN : TsRefreshAccepted(p, rotate)
    \/ \E p \in Callers, httpStatus \in {400, 401, 403} : TsRefreshRejected(p, httpStatus)
    \/ \E p \in Callers : TsRefreshUnavailable(p)
    \/ \E p \in Callers : TsSave(p)

SpecTs == Init /\ [][NextTs]_vars

NextClass ==
    \/ \E p \in Callers, op \in ClassCallerOps, hdr \in TenantKeys :
          StartCall(p, op, hdr)
    \/ \E d \in TickSteps : Tick(d)
    \/ \E p \in Callers : ExchangeCode(p)
    \/ \E p \in Callers : SaveFind(p)
    \/ \E p \in Callers : SaveWrite(p)
    \/ \E p \in Callers : DeactivateToken(p)
    \/ \E p \in Callers : ClassGvatFind(p)
    \/ \E p \in Callers : ClassGvatTouch(p)

SpecClass == Init /\ [][NextClass]_vars

-----------------------------------------------------------------------------
(* Tenant isolation of the index binding *)

\* C1: a document indexed under tenant A never appears in the results of a
\* search executed for a different tenant B.
C1_SearchSeesOnlyOwnDocuments ==
    \A r \in Reqs :
        (req[r].kind = "semanticSearch" /\ req[r].pc = "done") =>
            \A m \in req[r].results : m[2] = req[r].key

\* C3: every upsert or delete issued on behalf of a tenant is applied to the
\* index of that tenant.
C3_WritesHitOwnIndex ==
    \A r \in Reqs :
        (req[r].kind \in {"indexEntry", "removeEntry"} /\ req[r].status = "ok") =>
            req[r].target = generateIndexName(req[r].key)

\* C4: a request that carries no stack key while more than one stack is
\* authorized is rejected; it is never given the key of some stack.
C4_AmbiguousRequestIsRejected ==
    \A p \in Callers : proc[p].ambiguous => proc[p].key = NoKey

-----------------------------------------------------------------------------
(* Credential lifecycle *)

\* C2: of the concurrent getValidAccessToken calls that find the credential
\* of one stack within the safety margin, only one calls the token endpoint.
C2_SingleFlightRefresh ==
    \A p, q \in Callers :
        ( /\ p # q
          /\ q \in proc[p].peers
          /\ proc[p].op \in GvatOps /\ proc[q].op \in GvatOps
          /\ proc[p].key = proc[q].key
          /\ proc[p].nearExpiry /\ proc[q].nearExpiry )
        => ~(proc[p].calledProvider /\ proc[q].calledProvider)

\* C5: a getValidAccessToken call that arrives while a refresh for its stack
\* is in flight does not return a token before that refresh has ended.
C5_NoTokenWhileRefreshInFlight ==
    \A p \in Callers :
        ( /\ proc[p].op \in GvatOps
          /\ proc[p].pc = "done"
          /\ proc[p].status = "ok" )
        => proc[p].pending = {}

\* C6: getValidAccessToken returns an access token only if the credential is
\* active and not expired when the call returns.
C6_ReturnsOnlyLiveCredential ==
    \A p \in Callers :
        ( /\ proc[p].op \in GvatOps
          /\ proc[p].pc = "done"
          /\ proc[p].status = "ok" )
        => proc[p].retActive

\* C7: no token refresh turns an inactive credential active, and a
\* getValidAccessToken call that finds the credential inactive fails.
C7_RefreshNeverReactivates ==
    \A p \in Procs :
        /\ ~proc[p].revived
        /\ (proc[p].foundInactive /\ proc[p].pc = "done") => proc[p].status = "error"

\* C8: the sweep refreshes every credential it visits that was deactivated
\* less than 24 hours ago and whose refresh token the provider still accepts.
C8_SweepRecoversWithinGraceWindow ==
    proc[Sweeper].missed = {}

\* C9: when the token endpoint rejects the refresh token during
\* getValidAccessToken, the call marks the credential inactive and fails
\* with status 401.
C9_RejectedRefreshDeactivates ==
    \A p \in Callers :
        ( /\ proc[p].op \in GvatOps
          /\ proc[p].pc = "done"
          /\ proc[p].rejected )
        => ( /\ proc[p].status = "error"
             /\ proc[p].code = 401
             /\ proc[p].markKind = "rejected" )

\* C10: a failed refresh marks the credential inactive only when the token
\* endpoint rejected the refresh token.
C10_OnlyRejectionDeactivates ==
    \A p \in Procs : proc[p].markKind \in {"none", "rejected"}

-----------------------------------------------------------------------------
(* The safety margin and the statuses of getValidAccessToken *)

\* C11: a getValidAccessToken call that returns a token has refreshed it at
\* the token endpoint exactly when the stored credential expired within the
\* five-minute safety margin.
C11_RefreshExactlyWithinSafetyMargin ==
    \A p \in Callers :
        ( /\ proc[p].op = "classGetValidAccessToken"
          /\ proc[p].pc = "done"
          /\ proc[p].status = "ok" )
        => (proc[p].nearExpiry <=> proc[p].calledProvider)

\* the statuses that tell the caller to authorize again
ReauthorizeStatuses == {401, 404}

\* C12: a getValidAccessToken call that finds no credential, or whose refresh
\* token the token endpoint rejects, fails with a status that tells the caller
\* to authorize again, not with the status of a server error.
C12_AuthorizationFailureKeepsItsStatus ==
    \A p \in Callers :
        ( /\ proc[p].op = "getValidAccessToken"
          /\ proc[p].pc = "done"
          /\ (proc[p].failKind = "noCredential" \/ proc[p].rejected) )
        => ( /\ proc[p].status = "error"
             /\ proc[p].code \in ReauthorizeStatuses )

-----------------------------------------------------------------------------
(* Index names *)

\* C13: generateIndexName gives two distinct stack keys two distinct index
\* names, and gives one stack key the same name each time.
C13_IndexNamingIsInjective ==
    (naming.nameFirst # NoName /\ naming.nameSecond # NoName) =>
        (naming.first = naming.second <=> naming.nameFirst = naming.nameSecond)

\* C14: an update of an entry of a stack deletes from the index of that
\* stack and upserts into the index of that stack, and into no other.
C14_UpdateTouchesOwnIndexOnly ==
    \A r \in Reqs :
        req[r].kind = "updateEntry" =>
            /\ req[r].removedFrom \in {NoIndex, generateIndexName(req[r].key)}
            /\ req[r].target \in {NoIndex, generateIndexName(req[r].key)}

-----------------------------------------------------------------------------
(* Indexing of the entries of a stack *)

\* the text vectors that the index of the stack of the run holds for a uid
TextVectorsOf(uid) ==
    {v \in vectors[RunIndex] : v.entryUid = uid /\ v.type = "text"}

\* C18: an entry that indexAllEntries has indexed, once or again, has exactly
\* one text vector in the index of its stack, stored under the id made from
\* its uid and holding the text of its last indexing.
C18_ReindexingKeepsOneVector ==
    run.pc = "done" =>
        \A i \in 1..Len(run.entries) :
            run.fate[i] = "indexed" =>
                LET entry == run.entries[i]
                IN TextVectorsOf(entry.uid) =
                       {[id |-> DocumentId(entry), entryUid |-> entry.uid,
                         type |-> "text", text |-> run.lastText[entry.uid]]}

\* how the entries ended that indexEntryWithImages threw for
Failures == {"initializeFailed", "embeddingFailed", "upsertFailed",
             "imageUpsertFailed"}

\* the positions of the entries of the run that ended in one of `fates`
Ended(fates) == {i \in 1..Len(run.fate) : run.fate[i] \in fates}

\* the records of the failed entries, in the order of the entries
FailureRecords ==
    SelectSeq([i \in 1..Len(run.fate) |->
                  [entryUid |-> run.entries[i].uid, error |-> run.fate[i]]],
              LAMBDA rec : rec.error \in Failures)

\* C19: the failure of one entry does not stop indexAllEntries: when the run
\* returns, every entry has been processed, the result counts the entries
\* indexed, skipped and failed and lists the failed ones; of three entries of
\* which only the embedding of the second fails, 2 are indexed, 0 skipped,
\* 1 failed, and the list holds the one record of the second entry.
C19_FailureIsolation ==
    (run.pc = "done" /\ Len(run.entries) > 0) =>
        /\ Len(run.fate) = Len(run.entries)
        /\ run.result.indexed = Cardinality(Ended({"indexed"}))
        /\ run.result.skipped = Cardinality(Ended({"skipped"}))
        /\ run.result.errors = Cardinality(Ended(Failures))
        /\ run.result.totalProcessed = Len(run.entries)
        /\ run.result.errorsList =
               SubSeq(FailureRecords, 1, Min(ErrorsListCap, Len(FailureRecords)))
        /\ (/\ Len(run.entries) = 3
            /\ \A i \in 1..3 : run.entries[i].text # ""
            /\ \E i \in 1..Len(run.errorsList) :
                   /\ run.errorsList[i].entryUid = run.entries[2].uid
                   /\ run.errorsList[i].error = "embeddingFailed"
            /\ run.errors = 1)
           => /\ run.result.indexed = 2
              /\ run.result.skipped = 0
              /\ run.result.errors = 1
              /\ run.result.errorsList =
                     <<[entryUid |-> run.entries[2].uid,
                        error |-> "embeddingFailed"]>>

\* a run over three entries has returned after the embedding of the second
\* entry failed and the two others were indexed
C19_SecondOfThreeFailed ==
    /\ run.pc = "done"
    /\ run.fate = <<"indexed", "embeddingFailed", "indexed">>
    /\ run.result.errors = 1

\* C20: an entry without extractable text is counted under skipped and never
\* under errors, whatever else happens while it is processed.
C20_TextlessIsSkipped ==
    \A i \in 1..Len(run.fate) :
        run.entries[i].text = "" => run.fate[i] = "skipped"

\* C21: every indexAllEntries call that returns gives the summary with the
\* counts indexed, skipped and errors and a capped errorsList, also for a
\* stack without entries.
C21_SummaryHasCountsAndErrorsList ==
    run.pc = "done" =>
        /\ {"indexed", "skipped", "errors", "errorsList"} \subseteq
               DOMAIN run.result
        /\ Len(run.result.errorsList) <= ErrorsListCap

\* C22: indexAllEntries works in batches of at most 50 entries: it never
\* begins more than 50 entries without a pause between them.
C22_BatchesOfAtMostFiftyEntries ==
    run.sincePause <= BatchSize

C30_BindingFailureAborts ==
    \A i \in 1..Len(run.fate) :
        run.fate[i] = "initializeFailed" =>
            /\ run.pc = "failed"
            /\ \A j \in (i + 1)..Len(run.fate) : run.fate[j] # "indexed"

-----------------------------------------------------------------------------
(* The credential store *)

\* C33: every saveOrUpdateToken call completes with the credential of its
\* stack, also when two first calls for the same stack run at the same time.
C33_SaveOrUpdateAlwaysCompletes ==
    \A p \in Callers :
        (proc[p].op = "saveOrUpdateToken" /\ proc[p].pc = "done")
            => proc[p].status = "ok"

\* C34: at no time do two activities, be they getValidAccessToken calls,
\* retries of an authenticated request or the sweep, have a refresh for the
\* same stack posted to the token endpoint and not yet answered.
C34_OneRefreshInFlightPerStack ==
    \A p, q \in Procs :
        (/\ p # q
         /\ proc[p].pc \in {"rauPost", "tsPost"}
         /\ proc[q].pc \in {"rauPost", "tsPost"})
        => proc[p].key # proc[q].key

\* C36: no refresh stores its access and refresh token over a pair that the
\* provider issued later.
C36_NoLostUpdateOnRefresh ==
    \A p \in Procs : ~proc[p].overwroteNewer

-----------------------------------------------------------------------------
(* The background sweep *)

\* C31: in one sweep a failure while refreshing or deactivating the
\* credential of one tenant leaves no other due tenant without an attempt.
C31_SweepAttemptsEveryDueTenant ==
    proc[Sweeper].unattempted = {}

-----------------------------------------------------------------------------
(* The webhook receivers *)

\* C32: the response to a webhook event is sent before the indexing or the
\* removal for the event begins, and it is the same whatever the work yields.
C32_AcknowledgedBeforeWork ==
    \A r \in Reqs :
        /\ req[r].pc # "idle" => hook[r].ack # "none"
        /\ ~hook[r].workBeforeAck
        /\ hook[r].ack \in {"none", "received"}

\* C35: when two events for the same entry of the same stack arrive one
\* after the other and the work of both has succeeded, the index of the
\* stack shows what the later event asked for: the entry when it was an
\* update, no entry when it was a delete.
C35_LaterEventWins ==
    \A r1, r2 \in Reqs :
        (/\ hook[r1].pc = "done" /\ hook[r2].pc = "done"
         /\ hook[r1].seq < hook[r2].seq
         /\ hook[r1].key = hook[r2].key /\ hook[r1].id = hook[r2].id
         /\ req[r1].status = "ok" /\ req[r2].status = "ok"
         /\ req[r1].target = generateIndexName(hook[r1].key)
         /\ req[r2].target = generateIndexName(hook[r2].key))
        => LET held == store[generateIndexName(hook[r2].key)][hook[r2].id]
           IN IF hook[r2].event = "delete"
              THEN held = Absent
              ELSE held = hook[r2].key

-----------------------------------------------------------------------------
(* The search pipeline *)

\* C24: when the call of the reranking provider fails, for whatever reason,
\* the search answers without an error and with the candidates in the order
\* of their similarity.
C24_RerankFailureDegrades ==
    (srch.pc = "done" /\ srch.rerank \in RerankFailures)
        => /\ srch.response.status = "ok"
           /\ \A m, n \in 1..Len(srch.response.results) :
                  m < n => srch.response.results[m] < srch.response.results[n]

C26_AtMostTopKResults ==
    srch.pc = "done" => Len(srch.response.results) <= srch.topK

\* C27: the vector search is asked for max(topK * 2, topK) candidates, hence
\* for no fewer than topK.
C27_AsksForTwiceTopK ==
    (srch.handler \in Pipelined /\ srch.asked # 0) =>
        /\ srch.asked = (IF srch.topK * 2 > srch.topK THEN srch.topK * 2 ELSE srch.topK)
        /\ srch.asked >= srch.topK

C29_OneSearchLogPerAttempt ==
    srch.pc = "done" => srch.logs = 1

-----------------------------------------------------------------------------
(* Creation of the indexes *)

\* C15: an indexing or search attempt for a stack ends with the index of
\* that stack in existence: where it was missing, the attempt has created it.
C15_FirstAttemptCreatesIndex ==
    \A r \in Reqs :
        (req[r].kind \in {"indexEntry", "semanticSearch"} /\ req[r].pc = "done")
            => indexes[generateIndexName(req[r].key)] # "absent"

\* C16: a createStackIndex call that no failure of the provider interrupts
\* ends with success and with the index of its stack ready, also when
\* another call for the same stack runs at the same time.
C16_EnsureIndexIsIdempotent ==
    \A j \in Jobs :
        (job[j].pc = "done" /\ job[j].failure \in {"none", "conflict"})
            => (job[j].outcome = "ok" /\ indexes[IndexOf(j)] = "ready")

\* C17 as stated: a call that has waited for the index ends with the index
\* seen ready or with the timeout error.
C17_ReadyOrTimeoutOnly ==
    \A j \in Jobs :
        (job[j].pc = "done" /\ job[j].polled)
            => (job[j].outcome = "ok" \/ job[j].failure = "timeout")

\* C17: waitForIndexReady never polls past maxWaitTime, and every wait ends:
\* with the index ready, with the timeout error, or with the error of a
\* failed status check.
C17_PollingTerminates ==
    /\ [](\A j \in Jobs :
            job[j].pc \in {"poll", "sleep"} => job[j].elapsed < MaxWaitTime)
    /\ \A j \in Jobs :
            (job[j].pc \in {"poll", "sleep"}) ~> (job[j].pc = "done")

\* a wait has run into the timeout
C17_TimedOut ==
    \E j \in Jobs : job[j].pc = "done" /\ job[j].failure = "timeout"

(***************************************************************************)
(* The counts of a run *)
(***************************************************************************)

\* C39: each fetched entry is counted exactly once: while a run is under way
\* indexed + skipped + errors is the number of entries it has processed, and
\* in the result it is the number of entries that were fetched.
C39_EachEntryCountedOnce ==
    /\ run.indexed + run.skipped + run.errors = Len(run.fate)
    /\ run.pc = "done" =>
          run.result.indexed + run.result.skipped + run.result.errors
              = Len(run.entries)

\* a run over three entries has returned with one entry indexed, one skipped
\* and one failed
C39_OneOfEachCounted ==
    /\ run.pc = "done"
    /\ Len(run.entries) = 3
    /\ run.result.indexed = 1
    /\ run.result.skipped = 1
    /\ run.result.errors = 1

(***************************************************************************)
(* Authenticated requests to the content API *)
(***************************************************************************)

\* C37: a request that follows a 401 never carries the access token that the
\* 401 rejected
C37_RetryCarriesFreshToken ==
    \A p \in Requesters :
        (proc[p].pc \in {"marHttp", "tsMarHttp"} /\ proc[p].rejectedToken # 0)
            => proc[p].token # proc[p].rejectedToken

\* the retry of contentstackService.js is sent with the token of the 401
C37_RejectedTokenResent ==
    \A p \in Requesters :
        ~(/\ proc[p].op = "tsMakeAuthenticatedRequest"
          /\ proc[p].pc = "tsMarHttp"
          /\ proc[p].attempts = 2
          /\ proc[p].token = proc[p].rejectedToken)

\* C38: makeAuthenticatedRequest sends at most three requests (the first and
\* two retries), every call of it comes to an end, and a call that ended
\* either returned the response data or threw an error
C38_RequestTerminates ==
    /\ [](\A p \in Requesters :
            /\ proc[p].attempts <= MaxRetries + 1
            /\ (proc[p].op \in RequestOps /\ proc[p].pc = "done")
                  => \/ proc[p].status = "ok" /\ proc[p].token > 0
                     \/ proc[p].status = "error" /\ proc[p].code >= 400)
    /\ \A p \in Requesters :
          (proc[p].op \in RequestOps /\ proc[p].pc # "done")
              ~> (proc[p].pc = "done")

\* a request that gave up after its third 401
C38_ThreeAttemptsThenThrown ==
    \E p \in Requesters :
        /\ proc[p].op \in RequestOps
        /\ proc[p].pc = "done"
        /\ proc[p].attempts = MaxRetries + 1
        /\ proc[p].status = "error"
        /\ proc[p].code = 401

====
